---- MODULE Spec2Model ----
(***************************************************************************)
(* FastPay: the ledger domain model (app/models.py), the payment CRUD      *)
(* service (app/main.py) and the webhook ingestion router                  *)
(* (app/routers/webhooks.py) as state machines.                            *)
(*                                                                         *)
(* Ledger.  The relational store is modelled at READ COMMITTED with row    *)
(* locks: a transaction's writes stay in its own write set until COMMIT,   *)
(* SELECT ... FOR UPDATE and UPDATE take the row's exclusive lock and      *)
(* block while another transaction holds it, every statement reads the     *)
(* last committed row plus the transaction's own writes, and a ROLLBACK    *)
(* (an exception leaving the atomic block, or a crash) discards the write  *)
(* set and releases the locks.  Each database statement is one step.       *)
(* Amounts are counted in a fixed unit of money.                           *)
(***************************************************************************)
EXTENDS Integers, Sequences, FiniteSets, TLC

\* ---------------------------------------------------------------- bounds
MaxBal0 == 2      \* largest initial balance of an account
MaxAmt == 2       \* largest amount of a credit, a debit or a refund
MaxOps == 2       \* number of ledger calls started in one behaviour
MaxTxAmount == 3  \* largest amount of the payment transaction
MaxPayments == 2  \* payment records created in one behaviour
MaxRequests == 3  \* requests handled by the CRUD service in one behaviour
MaxHooks == 2     \* webhook requests received in one behaviour
MaxGateway == 2   \* requests handled by the gateway router in one behaviour
MaxMarks == 4     \* mark_completed / mark_failed calls in one behaviour
MaxConfigCalls == 3  \* get_config calls started in one behaviour
MaxEnvSets == 1   \* changes made to os.environ in one behaviour
MaxSessions == 3  \* sessions acquired through get_db in one behaviour
MaxProcessCalls == 2  \* Refund.process calls on the two opposite transactions

NULL == "NULL"
Accounts == {"A", "B"}
Procs == {"p1", "p2"}
Refunds == {"r1", "r2"}

STATUS_PENDING == "PENDING"
STATUS_COMPLETED == "COMPLETED"
STATUS_FAILED == "FAILED"
STATUS_REFUNDED == "REFUNDED"
STATUS_CHOICES == {STATUS_PENDING, STATUS_COMPLETED, STATUS_FAILED, STATUS_REFUNDED}

VARIABLES
    balance,    \* Account.balance, committed: [Accounts -> Int]
    lock,       \* owner of each account row's exclusive lock, or NULL
    txn,        \* the PaymentTransaction row, committed
    refunds,    \* the Refund rows, committed: amount and processed_at
    proc,       \* per caller: position in the running method, its instance
                \* snapshot, locals, uncommitted write set, and result
    bal0,       \* history: the initial balances
    net,        \* history: per account, amounts of the calls that returned
                \* successfully (credits and refunds in, debits and refunds out)
    moved,      \* history: per refund, committed funds movements
    nops        \* history: calls started

lvars == <<balance, lock, txn, refunds, proc, bal0, net, moved, nops>>

VARIABLES
    payments,   \* the payments table: [existing ids -> row]
    creq,       \* the CRUD request handled last
    cresp,      \* its response
    nreq,       \* CRUD requests handled; the clock behind created_at
    created_with, \* history: per id ever issued by uuid4(), the amount sent
    inflight    \* per worker thread: the update_payment request it is
                \* serving, with the row its session loaded

cvars == <<payments, creq, cresp, nreq, created_with, inflight>>

VARIABLES
    env,        \* STRIPE_SIGNING_SECRET and WEBHOOK_SECRET, read at import
    wreq,       \* the webhook request received last
    wresp,      \* its response
    bg,         \* background tasks scheduled and not yet run, in order
    nhook,      \* webhook requests received
    hooklog     \* history: per request in order of arrival, the response
                \* sent and the state of its background task

wvars == <<env, wreq, wresp, bg, nhook, hooklog>>

VARIABLES
    genv,       \* RAZORPAY_KEY_SECRET and RAZORPAY_WEBHOOK_SECRET, read at import
    greq,       \* the gateway request handled last
    gresp,      \* its response
    ngw         \* gateway requests handled

gvars == <<genv, greq, gresp, ngw>>

VARIABLES
    mrow,       \* a PaymentTransaction row: status, completed_at, metadata
    minst,      \* the model instance a caller holds for that row
    mlast,      \* the method called last on the instance
    nmarks,     \* calls made; the store's clock behind Now()
    mgiven      \* history: the non-empty reasons given to mark_failed,
                \* in call order

mvars == <<mrow, minst, mlast, nmarks, mgiven>>

VARIABLES
    osenv,      \* os.environ: the variables get_config reads
    cache,      \* the lru_cache of get_config: no entry, or one
    cthr,       \* per thread: position in get_config, the config it holds
    vres,       \* the last validate_required call and its result
    clog,       \* history: the get_config calls that returned, in order
    ncfg,       \* get_config calls started
    nenv        \* changes made to os.environ

fvars == <<osenv, cache, cthr, vres, clog, ncfg, nenv>>

VARIABLES
    sess,       \* the sessions SessionLocal() has created, in order: whether
                \* each is open and how often close() was called on it
    rq          \* per request slot: position in the request, its handler,
                \* the get_db serving it, its session, how the handler left

svars == <<sess, rq>>

VARIABLES
    obal,       \* two accounts with a transaction in each direction: the
                \* committed balances
    olock,      \* per account row: the caller holding its exclusive lock
    otx,        \* per transaction: its stored status
    oref,       \* per transaction: whether its refund has processed_at set
    ocall,      \* per caller: position in Refund.process, the transaction
                \* of its refund, uncommitted writes, result
    ocalls      \* Refund.process calls started

ovars == <<obal, olock, otx, oref, ocall, ocalls>>

ZeroDelta == [a \in Accounts |-> 0]

Idle ==
    [pc |-> "idle", op |-> "none", acct |-> NULL, amount |-> 0, refund |-> NULL,
     self_balance |-> 0, tx_status |-> NULL, self_processed_at |-> FALSE,
     a_balance |-> 0,
     delta |-> ZeroDelta, wproc |-> FALSE, wstat |-> FALSE, total |-> 0,
     result |-> "none"]

\* What a statement of p's transaction reads for account a: the committed
\* row plus p's own uncommitted writes.
Read(p, a) == balance[a] + proc[p].delta[a]

LockFree(p, a) == lock[a] \in {NULL, p}

Release(p) == [a \in Accounts |-> IF lock[a] = p THEN NULL ELSE lock[a]]

\* The call ends: locals that no longer matter are reset.
Finish(p, res) ==
    [proc[p] EXCEPT !.pc = "done", !.result = res, !.a_balance = 0,
                    !.self_balance = 0, !.delta = ZeroDelta, !.wproc = FALSE, !.wstat = FALSE,
                    !.total = 0, !.self_processed_at = FALSE]

\* An exception leaves `with transaction.atomic()`: ROLLBACK.
Rollback(p, res) ==
    /\ proc' = [proc EXCEPT ![p] = Finish(p, res)]
    /\ lock' = Release(p)
    /\ UNCHANGED <<balance, txn, refunds, bal0, net, moved, nops>>

LedgerInit ==
    /\ bal0 \in [Accounts -> 0..MaxBal0]
    /\ balance = bal0
    /\ lock = [a \in Accounts |-> NULL]
    /\ txn \in [from_account : {"A", NULL}, to_account : {"B", NULL},
                amount : 1..MaxTxAmount, status : STATUS_CHOICES]
    /\ refunds \in [Refunds -> [amount : 1..MaxAmt, processed_at : {FALSE}]]
    /\ proc = [p \in Procs |-> Idle]
    /\ net = ZeroDelta
    /\ moved = [r \in Refunds |-> 0]
    /\ nops = 0

\* A caller holding a Refund instance calls process on it; the instance
\* carries the processed_at it was loaded with, and its transaction is the
\* PaymentTransaction object loaded with it.
StartRefund(p) ==
    /\ proc[p].pc \in {"idle", "done"}
    /\ nops < MaxOps
    /\ \E r \in Refunds :
          proc' = [proc EXCEPT ![p] =
                      [Idle EXCEPT !.pc = "call", !.op = "process", !.refund = r,
                                   !.amount = refunds[r].amount,
                                   !.self_processed_at = refunds[r].processed_at,
                                   !.tx_status = txn.status]]
    /\ nops' = nops + 1
    /\ UNCHANGED <<balance, lock, txn, refunds, bal0, net, moved>>
    /\ UNCHANGED <<cvars, wvars, gvars, mvars, fvars, svars, ovars>>

\* ------------------------------------------------------- Account.credit
\* A caller holding an Account instance (loaded from the store, so carrying
\* a snapshot of the balance) calls credit(amount) on it.
\* if amount < 0: raise ValueError
CreditCall(p) ==
    /\ proc[p].pc \in {"idle", "done"}
    /\ nops < MaxOps
    /\ \E a \in Accounts, m \in (-1)..MaxAmt :
          proc' = [proc EXCEPT ![p] =
                      IF m < 0
                      THEN [Idle EXCEPT !.pc = "done", !.op = "credit", !.acct = a,
                                        !.amount = m, !.result = "invalid_amount"]
                      ELSE [Idle EXCEPT !.pc = "update", !.op = "credit", !.acct = a,
                                        !.amount = m, !.self_balance = balance[a]]]
    /\ nops' = nops + 1
    /\ UNCHANGED <<balance, lock, txn, refunds, bal0, net, moved>>
    /\ UNCHANGED <<cvars, wvars, gvars, mvars, fvars, svars, ovars>>

\* A read of the instance, then a write: balance = self.balance + amount.
CreditNewBalanceCached(p) == proc[p].self_balance + proc[p].amount

\* balance = F("balance") + amount: computed by the store from the row.
CreditNewBalance(p) == Read(p, proc[p].acct) + proc[p].amount

\* Account.objects.filter(pk=self.pk).update(balance=F("balance") + amount)
\* self.refresh_from_db(fields=["balance"])
CreditUpdate(p) ==
    /\ proc[p].pc = "update" /\ proc[p].op = "credit"
    /\ LockFree(p, proc[p].acct)
    /\ lock' = [lock EXCEPT ![proc[p].acct] = p]
    /\ proc' = [proc EXCEPT ![p].pc = "commit",
                            ![p].delta[proc[p].acct] =
                                CreditNewBalance(p) - balance[proc[p].acct],
                            ![p].self_balance = CreditNewBalance(p)]
    /\ UNCHANGED <<balance, txn, refunds, bal0, net, moved, nops>>
    /\ UNCHANGED <<cvars, wvars, gvars, mvars, fvars, svars, ovars>>

\* COMMIT at the exit of the atomic block: the write set becomes the
\* committed state and the locks are released.
Commit(p) ==
    /\ balance' = [a \in Accounts |-> balance[a] + proc[p].delta[a]]
    /\ lock' = Release(p)
    /\ proc' = [proc EXCEPT ![p] = Finish(p, "ok")]
    /\ UNCHANGED <<bal0, nops>>

CreditCommit(p) ==
    /\ proc[p].pc = "commit" /\ proc[p].op = "credit"
    /\ Commit(p)
    /\ net' = [net EXCEPT ![proc[p].acct] = @ + proc[p].amount]
    /\ UNCHANGED <<txn, refunds, moved>>
    /\ UNCHANGED <<cvars, wvars, gvars, mvars, fvars, svars, ovars>>

\* -------------------------------------------------------- Account.debit
\* debit without its test of the amount's sign.
DebitCallUnchecked(p) ==
    /\ proc[p].pc \in {"idle", "done"}
    /\ nops < MaxOps
    /\ \E a \in Accounts, m \in (-1)..MaxAmt :
          proc' = [proc EXCEPT ![p] =
                      [Idle EXCEPT !.pc = "select", !.op = "debit", !.acct = a,
                                   !.amount = m, !.self_balance = balance[a]]]
    /\ nops' = nops + 1
    /\ UNCHANGED <<balance, lock, txn, refunds, bal0, net, moved>>
    /\ UNCHANGED <<cvars, wvars, gvars, mvars, fvars, svars, ovars>>

\* if amount < 0: raise ValueError
DebitCall(p) ==
    /\ proc[p].pc \in {"idle", "done"}
    /\ nops < MaxOps
    /\ \E a \in Accounts, m \in (-1)..MaxAmt :
          proc' = [proc EXCEPT ![p] =
                      IF m < 0
                      THEN [Idle EXCEPT !.pc = "done", !.op = "debit", !.acct = a,
                                        !.amount = m, !.result = "invalid_amount"]
                      ELSE [Idle EXCEPT !.pc = "select", !.op = "debit", !.acct = a,
                                        !.amount = m, !.self_balance = balance[a]]]
    /\ nops' = nops + 1
    /\ UNCHANGED <<balance, lock, txn, refunds, bal0, net, moved>>
    /\ UNCHANGED <<cvars, wvars, gvars, mvars, fvars, svars, ovars>>

\* A plain get(pk=...) in place of select_for_update().get(pk=...).
DebitGetUnlocked(p) ==
    /\ proc[p].pc = "select" /\ proc[p].op = "debit"
    /\ proc' = [proc EXCEPT ![p].pc = "save",
                            ![p].a_balance = Read(p, proc[p].acct)]
    /\ UNCHANGED <<balance, lock, txn, refunds, bal0, net, moved, nops>>
    /\ UNCHANGED <<cvars, wvars, gvars, mvars, fvars, svars, ovars>>

\* a = Account.objects.select_for_update().get(pk=self.pk)
DebitSelectForUpdate(p) ==
    /\ proc[p].pc = "select" /\ proc[p].op = "debit"
    /\ LockFree(p, proc[p].acct)
    /\ lock' = [lock EXCEPT ![proc[p].acct] = p]
    /\ proc' = [proc EXCEPT ![p].pc = "save",
                            ![p].a_balance = Read(p, proc[p].acct)]
    /\ UNCHANGED <<balance, txn, refunds, bal0, net, moved, nops>>
    /\ UNCHANGED <<cvars, wvars, gvars, mvars, fvars, svars, ovars>>

\* if a.balance < amount: raise ValueError
\* a.balance = F("balance") - amount; a.save(update_fields=["balance"])
\* a.refresh_from_db(fields=["balance"]); self.balance = a.balance
DebitSave(p) ==
    /\ proc[p].pc = "save" /\ proc[p].op = "debit"
    /\ IF proc[p].a_balance < proc[p].amount
       THEN Rollback(p, "insufficient_funds")
       ELSE /\ LockFree(p, proc[p].acct)
            /\ lock' = [lock EXCEPT ![proc[p].acct] = p]
            /\ proc' = [proc EXCEPT ![p].pc = "commit",
                                    ![p].delta[proc[p].acct] = @ - proc[p].amount,
                                    ![p].a_balance =
                                        Read(p, proc[p].acct) - proc[p].amount,
                                    ![p].self_balance =
                                        Read(p, proc[p].acct) - proc[p].amount]
            /\ UNCHANGED <<balance, txn, refunds, bal0, net, moved, nops>>
    /\ UNCHANGED <<cvars, wvars, gvars, mvars, fvars, svars, ovars>>

DebitCommit(p) ==
    /\ proc[p].pc = "commit" /\ proc[p].op = "debit"
    /\ Commit(p)
    /\ net' = [net EXCEPT ![proc[p].acct] = @ - proc[p].amount]
    /\ UNCHANGED <<txn, refunds, moved>>
    /\ UNCHANGED <<cvars, wvars, gvars, mvars, fvars, svars, ovars>>

\* ------------------------------------------------------- Refund.process
\* tx.status not in (tx.STATUS_COMPLETED,)  ->  ValueError
CanRefundLoose(st) == st \in {STATUS_COMPLETED, STATUS_REFUNDED}

CanRefund(st) == st \in {STATUS_COMPLETED}

\* src = tx.to_account (where the funds were sent), dst = tx.from_account
RefundSrc == txn.to_account
RefundDst == txn.from_account

ProcessCall(p) ==
    /\ proc[p].pc = "call" /\ proc[p].op = "process"
    /\ proc' = [proc EXCEPT ![p] =
                  IF ~CanRefund(proc[p].tx_status) THEN Finish(p, "invalid_state")
                  ELSE IF RefundDst = NULL THEN Finish(p, "no_payer_account")
                  ELSE IF RefundSrc = NULL THEN Finish(p, "no_source_account")
                  ELSE [@ EXCEPT !.pc = "select"]]
    /\ UNCHANGED <<balance, lock, txn, refunds, bal0, net, moved, nops>>
    /\ UNCHANGED <<cvars, wvars, gvars, mvars, fvars, svars, ovars>>

\* src = Account.objects.select_for_update().get(pk=src.pk)
ProcessSelectForUpdate(p) ==
    /\ proc[p].pc = "select" /\ proc[p].op = "process"
    /\ LockFree(p, RefundSrc)
    /\ lock' = [lock EXCEPT ![RefundSrc] = p]
    /\ proc' = [proc EXCEPT ![p].pc = "save_src",
                            ![p].a_balance = Read(p, RefundSrc)]
    /\ UNCHANGED <<balance, txn, refunds, bal0, net, moved, nops>>
    /\ UNCHANGED <<cvars, wvars, gvars, mvars, fvars, svars, ovars>>

\* src.balance < self.amount  ->  ValueError
SufficientAlways(have, want) == TRUE

Sufficient(have, want) == ~(have < want)

\* The UPDATE of src issued in autocommit mode, outside the atomic block.
ProcessSaveSrcAutocommit(p) ==
    /\ proc[p].pc = "save_src" /\ proc[p].op = "process"
    /\ IF ~Sufficient(proc[p].a_balance, proc[p].amount)
       THEN Rollback(p, "insufficient_funds")
       ELSE /\ balance' = [balance EXCEPT ![RefundSrc] = @ - proc[p].amount]
            /\ proc' = [proc EXCEPT ![p].pc = "save_dst"]
            /\ UNCHANGED <<lock, txn, refunds, bal0, net, moved, nops>>
    /\ UNCHANGED <<cvars, wvars, gvars, mvars, fvars, svars, ovars>>

\* src.balance = F("balance") - self.amount; src.save(update_fields=["balance"])
ProcessSaveSrc(p) ==
    /\ proc[p].pc = "save_src" /\ proc[p].op = "process"
    /\ IF ~Sufficient(proc[p].a_balance, proc[p].amount)
       THEN Rollback(p, "insufficient_funds")
       ELSE /\ proc' = [proc EXCEPT ![p].pc = "save_dst",
                                    ![p].delta[RefundSrc] = @ - proc[p].amount]
            /\ UNCHANGED <<balance, lock, txn, refunds, bal0, net, moved, nops>>
    /\ UNCHANGED <<cvars, wvars, gvars, mvars, fvars, svars, ovars>>

\* dst.balance = F("balance") + self.amount; dst.save(update_fields=["balance"])
ProcessSaveDst(p) ==
    /\ proc[p].pc = "save_dst" /\ proc[p].op = "process"
    /\ LockFree(p, RefundDst)
    /\ lock' = [lock EXCEPT ![RefundDst] = p]
    /\ proc' = [proc EXCEPT ![p].pc = "stamp",
                            ![p].delta[RefundDst] = @ + proc[p].amount]
    /\ UNCHANGED <<balance, txn, refunds, bal0, net, moved, nops>>
    /\ UNCHANGED <<cvars, wvars, gvars, mvars, fvars, svars, ovars>>

\* self.processed_at = Now(); self.save(update_fields=["processed_at"])
ProcessStamp(p) ==
    /\ proc[p].pc = "stamp" /\ proc[p].op = "process"
    /\ proc' = [proc EXCEPT ![p].pc = "total", ![p].wproc = TRUE]
    /\ UNCHANGED <<balance, lock, txn, refunds, bal0, net, moved, nops>>
    /\ UNCHANGED <<cvars, wvars, gvars, mvars, fvars, svars, ovars>>

RECURSIVE SumAmounts(_)
SumAmounts(S) ==
    IF S = {} THEN 0
    ELSE LET r == CHOOSE x \in S : TRUE
         IN refunds[r].amount + SumAmounts(S \ {r})

\* total_refunded = sum([r.amount for r in tx.refunds.all()])
\* if total_refunded >= tx.amount: tx.status = REFUNDED; tx.save(["status"])
ProcessTotal(p) ==
    /\ proc[p].pc = "total" /\ proc[p].op = "process"
    /\ proc' = [proc EXCEPT ![p].pc = "commit",
                            ![p].total = SumAmounts(Refunds),
                            ![p].wstat = (SumAmounts(Refunds) >= txn.amount)]
    /\ UNCHANGED <<balance, lock, txn, refunds, bal0, net, moved, nops>>
    /\ UNCHANGED <<cvars, wvars, gvars, mvars, fvars, svars, ovars>>

ProcessCommit(p) ==
    /\ proc[p].pc = "commit" /\ proc[p].op = "process"
    /\ Commit(p)
    /\ refunds' = [refunds EXCEPT ![proc[p].refund].processed_at =
                                      (@ \/ proc[p].wproc)]
    /\ txn' = [txn EXCEPT !.status = IF proc[p].wstat THEN STATUS_REFUNDED ELSE @]
    /\ net' = [a \in Accounts |->
                  net[a] + (IF a = RefundDst THEN proc[p].amount ELSE 0)
                         - (IF a = RefundSrc THEN proc[p].amount ELSE 0)]
    /\ moved' = [moved EXCEPT ![proc[p].refund] = @ + 1]
    /\ UNCHANGED <<cvars, wvars, gvars, mvars, fvars, svars, ovars>>

\* The process dies inside the atomic block: the store rolls the open
\* transaction back.
Crash(p) ==
    /\ proc[p].pc \notin {"idle", "call", "done"}
    /\ Rollback(p, "crashed")
    /\ UNCHANGED <<cvars, wvars, gvars, mvars, fvars, svars, ovars>>

\* A deterministic ledger for the behaviours of the other components.
LedgerIdle ==
    /\ bal0 = ZeroDelta
    /\ balance = bal0
    /\ lock = [a \in Accounts |-> NULL]
    /\ txn = [from_account |-> "A", to_account |-> "B", amount |-> 1,
              status |-> STATUS_PENDING]
    /\ refunds = [r \in Refunds |-> [amount |-> 1, processed_at |-> FALSE]]
    /\ proc = [p \in Procs |-> Idle]
    /\ net = ZeroDelta
    /\ moved = [r \in Refunds |-> 0]
    /\ nops = 0




\* ------------------------------------------- Payment CRUD (app/main.py)
PENDING == "pending"
COMPLETED == "completed"
FAILED == "failed"
REFUNDED == "refunded"

PaymentIds == 1..MaxPayments

\* Requests the service handles at the same time, one per worker thread.
Slots == {"q1", "q2"}
None == "None"

\* A text counts as given unless it is None: the empty string too.
TruthyNotNone(x) == x # None

\* Truth value of an optional text (None or "" is false).
Truthy(x) == x \notin {None, ""}

\* str.upper() on the currencies a client sends.
Upper(v) ==
    CASE v = "usd" -> "USD"
      [] v = "us" -> "US"
      [] OTHER -> v

\* PaymentCreate.currency: constr(min_length=3, max_length=3)
\* (of the currencies sent, only "us" is not three characters long)
CurrencyValid(v) == v \notin {"us", "US"}

Lower(v) ==
    CASE v = "COMPLETED" -> "completed"
      [] v = "Refunded" -> "refunded"
      [] OTHER -> v

\* PaymentUpdate.validate_status
StatusValid(v) == v = None \/ Lower(v) \in {PENDING, COMPLETED, FAILED, REFUNDED}

\* Amounts a client may send. A "small" amount is counted in thousandths
\* of the major unit, and double arithmetic on it is exact to the cent.
\* "e14" stands for 97972517548352 units plus the thousandths: its cents
\* lie between 2^53 and 2^54, where doubles are 2 apart. "e17" stands for
\* 1e17 units: its cents exceed 2^63 - 1.
Small(milli) == [mag |-> "small", milli |-> milli]

\* PaymentCreate: gt=0, and check_amount_precision:
\* abs(amount * 100 - round(amount * 100)) <= 1e-6. Above 2^53 the product
\* is an integer-valued double, so the difference is 0.
AmountValid(a) ==
    IF a.mag = "small" THEN a.milli > 0 /\ a.milli % 10 = 0 ELSE TRUE

\* int(round(payload.amount * 100)). The product is rounded to a double:
\* for "e14" to the nearest even integer (97972517548352.39 * 100 gives
\* 9797251754835240).
AmountCents(a) ==
    LET c == a.milli \div 10
    IN [mag |-> a.mag,
        cents |-> IF a.mag = "e14" /\ c % 2 = 1 THEN c + 1 ELSE c]


\* amount_cents / 100.0
AmountOut(c) == [mag |-> c.mag, milli |-> 10 * c.cents]

\* allowed_transitions of update_payment, with completed -> failed added.
AllowedTransitionsLoose(current) ==
    CASE current = PENDING -> {COMPLETED, FAILED, REFUNDED}
      [] current = COMPLETED -> {REFUNDED, FAILED}
      [] OTHER -> {}

\* allowed_transitions.get(current, set())
AllowedTransitions(current) ==
    CASE current = PENDING -> {COMPLETED, FAILED, REFUNDED}
      [] current = COMPLETED -> {REFUNDED}
      [] current = FAILED -> {}
      [] current = REFUNDED -> {}
      [] OTHER -> {}

\* The handler assigning the requested status without the guard.
TransitionOkUnguarded(current, requested) == TRUE

\* The transition guard, with its no-op exception.
TransitionOk(current, requested) ==
    requested \in AllowedTransitions(current) \/ requested = current


create_payment ==
    /\ nreq < MaxRequests
    \* The amount, and the currency, method and description sent with it.
    /\ \E a \in {Small(0), Small(10), Small(15),
                  [mag |-> "e14", milli |-> 390], [mag |-> "e17", milli |-> 0]},
          cm \in {<<"usd", "card", None>>, <<"EUR", "upi", "d1">>,
                  <<"us", "card", None>>} :
          /\ creq' = [op |-> "create", amount |-> a, description |-> cm[3],
                      currency |-> cm[1]]
          /\ IF ~AmountValid(a) \/ ~CurrencyValid(cm[1])
             THEN /\ cresp' = [code |-> 422]
                  /\ UNCHANGED <<payments, created_with>>
             \* The Integer column holds 64 bits: a larger int raises OverflowError.
             ELSE IF AmountCents(a).mag = "e17"
             THEN /\ cresp' = [code |-> 500]
                  /\ UNCHANGED <<payments, created_with>>
             ELSE \E id \in PaymentIds \ DOMAIN created_with :
                     LET row == [amount_cents |-> AmountCents(a),
                                 currency |-> Upper(cm[1]), method |-> cm[2],
                                 status |-> PENDING, description |-> cm[3],
                                 created_at |-> nreq]
                     IN /\ payments' = [i \in DOMAIN payments \cup {id} |->
                                           IF i = id THEN row ELSE payments[i]]
                        /\ created_with' =
                              [i \in DOMAIN created_with \cup {id} |->
                                  IF i = id THEN a ELSE created_with[i]]
                        /\ cresp' = [code |-> 201, id |-> id, row |-> row,
                                     amount |-> AmountOut(row.amount_cents)]
    /\ nreq' = nreq + 1
    /\ UNCHANGED inflight
    /\ UNCHANGED <<lvars, wvars, gvars, mvars, fvars, svars, ovars>>

\* if payload.description is not None: result.description = payload.description
AssignDescription(result, d) ==
    IF d # None THEN [result EXCEPT !.description = d] ELSE result

\* The status assignment on a column set with onupdate=datetime.utcnow.
AssignStatusStamping(result, st) ==
    IF st # None THEN [result EXCEPT !.status = st, !.created_at = nreq]
    ELSE result

\* result.status = payload.status, when a status was sent
AssignStatus(result, st) ==
    IF st # None THEN [result EXCEPT !.status = st] ELSE result

\* get_db committing in its finally block before it closes the session.
close_committing(stored, pending) == pending

\* The request ends without db.commit(): get_db's db.close() discards what
\* the handler assigned to the objects of the session.
close_uncommitted(stored, pending) == stored

update_payment ==
    /\ nreq < MaxRequests
    /\ \E id \in PaymentIds, d \in {"d1", None},
          v \in {"pending", "completed", "failed", "refunded",
                "COMPLETED", "Refunded", "cancelled", None} :
          /\ creq' = [op |-> "update", id |-> id, description |-> d, status |-> v]
          /\ IF ~StatusValid(v)
             THEN /\ cresp' = [code |-> 422]
                  /\ UNCHANGED payments
             ELSE IF id \notin DOMAIN payments
             THEN /\ cresp' = [code |-> 404]
                  /\ UNCHANGED payments
             ELSE LET result == payments[id]
                      st == IF v = None THEN None ELSE Lower(v)
                      r1 == AssignDescription(result, d)
                      r2 == AssignStatus(r1, st)
                  IN IF st # None /\ ~TransitionOk(result.status, st)
                     THEN /\ cresp' = [code |-> 400, from |-> result.status,
                                       to |-> st]
                          /\ payments' = close_uncommitted(payments,
                                              [payments EXCEPT ![id] = r1])
                     ELSE /\ payments' = [payments EXCEPT ![id] = r2]
                          /\ cresp' = [code |-> 200, id |-> id, row |-> r2]
    /\ nreq' = nreq + 1
    /\ UNCHANGED created_with
    /\ UNCHANGED inflight
    /\ UNCHANGED <<lvars, wvars, gvars, mvars, fvars, svars, ovars>>

\* delete_payment without db.commit(): the session is closed and the DELETE
\* rolled back.
delete_payment_uncommitted ==
    /\ nreq < MaxRequests
    /\ \E id \in PaymentIds :
          /\ creq' = [op |-> "delete", id |-> id]
          /\ cresp' = IF id \notin DOMAIN payments THEN [code |-> 404]
                      ELSE [code |-> 204]
    /\ nreq' = nreq + 1
    /\ UNCHANGED <<payments, created_with>>
    /\ UNCHANGED inflight
    /\ UNCHANGED <<lvars, wvars, gvars, mvars, fvars, svars, ovars>>

delete_payment ==
    /\ nreq < MaxRequests
    /\ \E id \in PaymentIds :
          /\ creq' = [op |-> "delete", id |-> id]
          /\ IF id \notin DOMAIN payments
             THEN /\ cresp' = [code |-> 404]
                  /\ UNCHANGED payments
             ELSE /\ payments' = [i \in DOMAIN payments \ {id} |-> payments[i]]
                  /\ cresp' = [code |-> 204]
    /\ nreq' = nreq + 1
    /\ UNCHANGED created_with
    /\ UNCHANGED inflight
    /\ UNCHANGED <<lvars, wvars, gvars, mvars, fvars, svars, ovars>>

\* PaymentRead built from a row.
PaymentRead(id) ==
    [id |-> id, row |-> payments[id],
     amount |-> AmountOut(payments[id].amount_cents)]

get_payment ==
    /\ nreq < MaxRequests
    /\ \E id \in PaymentIds :
          /\ creq' = [op |-> "get", id |-> id]
          /\ cresp' = IF id \notin DOMAIN payments THEN [code |-> 404]
                      ELSE [code |-> 200, id |-> id, row |-> payments[id],
                            amount |-> AmountOut(payments[id].amount_cents)]
    /\ nreq' = nreq + 1
    /\ UNCHANGED <<payments, created_with>>
    /\ UNCHANGED inflight
    /\ UNCHANGED <<lvars, wvars, gvars, mvars, fvars, svars, ovars>>


\* ORDER BY created_at DESC over the rows S; created_at differs from row
\* to row.
RECURSIVE NewestFirst(_)
NewestFirst(S) ==
    IF S = {} THEN <<>>
    ELSE LET i == CHOOSE x \in S :
                     \A y \in S : payments[y].created_at <= payments[x].created_at
         IN <<i>> \o NewestFirst(S \ {i})

\* LIMIT applied before OFFSET.
PageLimitFirst(seq, limit, offset) ==
    LET head == SubSeq(seq, 1, IF limit < Len(seq) THEN limit ELSE Len(seq))
    IN SubSeq(head, offset + 1, Len(head))

\* .limit(limit).offset(offset): LIMIT limit OFFSET offset
Page(seq, limit, offset) ==
    SubSeq(seq, offset + 1,
           IF offset + limit < Len(seq) THEN offset + limit ELSE Len(seq))

list_payments ==
    /\ nreq < MaxRequests
    \* Query parameters: status (absent, empty, or a text), limit (ge=1,
    \* le=100) and offset (ge=0).
    /\ \E f \in {None, "", "pending", "COMPLETED"},
          pg \in ({1, 2} \X {0, 1}) \cup {<<0, 0>>, <<101, 0>>, <<1, -1>>} :
          LET limit == pg[1]
              offset == pg[2]
          IN
          /\ creq' = [op |-> "list", status |-> f, limit |-> limit,
                      offset |-> offset]
          /\ IF limit < 1 \/ limit > 100 \/ offset < 0
             THEN cresp' = [code |-> 422]
             ELSE LET rows == IF Truthy(f)
                              THEN {i \in DOMAIN payments :
                                       payments[i].status = Lower(f)}
                              ELSE DOMAIN payments
                      page == Page(NewestFirst(rows), limit, offset)
                  IN cresp' = [code |-> 200,
                               items |-> [k \in 1..Len(page) |->
                                             PaymentRead(page[k])]]
    /\ nreq' = nreq + 1
    /\ UNCHANGED <<payments, created_with>>
    /\ UNCHANGED inflight
    /\ UNCHANGED <<lvars, wvars, gvars, mvars, fvars, svars, ovars>>

\* ------------- update_payment requests served at the same time
\* update_payment is a plain `def`: the framework runs each request on a
\* thread of its pool, with a session of its own. The SELECT takes no lock
\* and reads the committed row; db.commit() flushes an UPDATE of the columns
\* whose value the handler changed on the loaded object, keyed by the id
\* alone, and commits it.

\* The request is validated (PaymentUpdate) and the handler runs
\* db.execute(stmt).scalar_one(): 404, or the row is loaded.
update_payment_select(q) ==
    /\ inflight[q].pc \in {"idle", "done"}
    /\ nreq < MaxRequests
    /\ \E id \in PaymentIds, d \in {"d1", None},
          v \in {"pending", "completed", "failed", "refunded",
                "COMPLETED", "cancelled", None} :
          inflight' = [inflight EXCEPT ![q] =
              IF ~StatusValid(v)
              THEN [pc |-> "done", id |-> id, description |-> d,
                    status |-> None, result |-> <<>>, code |-> 422]
              ELSE IF id \notin DOMAIN payments
              THEN [pc |-> "done", id |-> id, description |-> d,
                    status |-> None, result |-> <<>>, code |-> 404]
              ELSE [pc |-> "loaded", id |-> id, description |-> d,
                    status |-> IF v = None THEN None ELSE Lower(v),
                    result |-> <<payments[id]>>, code |-> 0]]
    /\ nreq' = nreq + 1
    /\ UNCHANGED <<payments, creq, cresp, created_with>>
    /\ UNCHANGED <<lvars, wvars, gvars, mvars, fvars, svars, ovars>>

\* The assignments and the transition guard on the loaded object, then
\* db.add(result); db.commit(). A column is written when its value differs
\* from the loaded one.
update_payment_commit(q) ==
    /\ inflight[q].pc = "loaded"
    /\ LET id == inflight[q].id
           result == inflight[q].result[1]
           st == inflight[q].status
           r2 == AssignStatus(AssignDescription(result, inflight[q].description), st)
       IN IF st # None /\ ~TransitionOk(result.status, st)
          THEN /\ inflight' = [inflight EXCEPT ![q].pc = "done", ![q].code = 400,
                                               ![q].result = <<>>]
               /\ UNCHANGED payments
          ELSE /\ payments' =
                     [payments EXCEPT
                         ![id].status =
                             IF r2.status # result.status THEN r2.status ELSE @,
                         ![id].description =
                             IF r2.description # result.description
                             THEN r2.description ELSE @]
               /\ inflight' = [inflight EXCEPT ![q].pc = "done", ![q].code = 200,
                                               ![q].result = <<>>]
    /\ UNCHANGED <<creq, cresp, nreq, created_with>>
    /\ UNCHANGED <<lvars, wvars, gvars, mvars, fvars, svars, ovars>>

UpdateNext ==
    \E q \in Slots : update_payment_select(q) \/ update_payment_commit(q)

CrudNext ==
    \/ create_payment \/ update_payment \/ delete_payment
    \/ get_payment \/ list_payments

\* -------------------------------- Webhook ingestion (routers/webhooks.py)
TIMESTAMP_TOLERANCE_SECONDS == 300

\* time.time() at the moment a request is verified, in milliseconds.
NowMs == {1000000, 1000500}

\* hmac.new(secret, msg, sha256).hexdigest(): distinct (secret, message)
\* pairs give distinct digests.
Hmac(secret, msg) == <<"hmac", secret, msg>>

\* A header value that is no digest at all.
Garbage == <<"garbage">>

\* A header value holding a character outside ASCII (headers are decoded
\* as latin-1, so any byte above 0x7f gives one).
NonAscii == <<"nonascii">>

\* hmac.compare_digest(a, b) on two str raises TypeError when either holds
\* a non-ASCII character; hexdigest() is always ASCII.
compare_digest_raises(a, b) == a = NonAscii \/ b = NonAscii

\* Request bodies: a JSON object whose data field, if it has one, is an
\* object holding an object ("b_obj"); an object whose data field is a
\* number ("b_data"); a JSON array ("b_arr"); bytes that are no JSON.
Bodies == {"b_obj", "b_data", "b_arr", "b_bad"}
JsonOk(body) == body # "b_bad"
Json(body) == [value |-> body]
\* The parsed value is a dict; its "data" is a dict.
IsObject(v) == v.value \in {"b_obj", "b_data"}

\* Texts of the t= field: decimal integers as str() prints them, one
\* integer written with a sign ("+1000"), and a text int() rejects.
TsValues == {699, 700, 701, 1000, 1300, 1301}
Str(n) == [numeric |-> TRUE, value |-> n, canonical |-> TRUE]
\* int(text): a ValueError unless the text is numeric.
IsInt(text) == text.numeric
IntOf(text) == text.value

\* The digest a sender holding key k computes for timestamp text t and
\* body b: over "{t}.{b}" with t as the sender wrote it.
SenderDigest(k, t, b) == Hmac(k, <<t, b>>)

\* A Stripe-Signature header after split(","): the items holding "=" as
\* <<key, value>> after strip(), the others as NoEq. <<>> is the header
\* absent or empty (`stripe_signature or ""`).
NoEq == <<"noeq">>

StripeHeaders ==
    {<<>>}
      \cup {<<<<"t", t>>, <<"v1", SenderDigest("whsec", t, "b_obj")>>>> :
               t \in {Str(n) : n \in TsValues}
                       \cup {[numeric |-> TRUE, value |-> 1000, canonical |-> FALSE],
                             [numeric |-> FALSE, value |-> 0, canonical |-> FALSE]}}
      \cup {<<<<"t", Str(1000)>>, <<"v1", SenderDigest("whsec", Str(1000), b)>>>> :
               b \in Bodies}
      \cup {<<<<"t", Str(1000)>>, <<"v1", d>>>> :
               d \in {SenderDigest("other", Str(1000), "b_obj"),
                      SenderDigest("whsec", Str(700), "b_obj"), Garbage,
                      NonAscii}}
      \cup {<<<<"v1", SenderDigest("whsec", Str(1000), "b_obj")>>, NoEq,
              <<"t", Str(1000)>>>>}
      \cup {<<<<"t", Str(1000)>>, <<"t", Str(699)>>,
              <<"v1", SenderDigest("whsec", Str(699), "b_obj")>>>>}
      \cup {<<<<"t", Str(1000)>>>>, <<<<"v1", Garbage>>>>, <<NoEq>>}


\* Truth value of a header value.
Present(h) == h # <<>>

\* _parse_stripe_signature_header: the dict of the items, a later key
\* replacing an earlier one. For an empty header the code returns None,
\* which its caller treats as it treats the empty dict (`not parsed`).
RECURSIVE ParseItems(_, _)
ParseItems(items, out) ==
    IF items = <<>> THEN out
    ELSE LET it == Head(items)
         IN ParseItems(Tail(items),
                       IF it = NoEq THEN out
                       ELSE [k \in DOMAIN out \cup {it[1]} |->
                                IF k = it[1] THEN it[2] ELSE out[k]])


_parse_stripe_signature_header(header_value) ==
    LET empty == [k \in {} |-> None]
    IN IF header_value = <<>> THEN empty ELSE ParseItems(header_value, empty)

\* time.time() - timestamp > TIMESTAMP_TOLERANCE_SECONDS, without abs().
OutsideToleranceSigned(now, timestamp) ==
    now - 1000 * timestamp > 1000 * TIMESTAMP_TOLERANCE_SECONDS

\* abs(time.time() - timestamp) > TIMESTAMP_TOLERANCE_SECONDS
OutsideTolerance(now, timestamp) ==
    LET diff == now - 1000 * timestamp
    IN (IF diff < 0 THEN -diff ELSE diff) > 1000 * TIMESTAMP_TOLERANCE_SECONDS

_verify_stripe_signature(payload, header_value, secret, now) ==
    IF ~Truthy(secret) THEN TRUE
    ELSE LET parsed == _parse_stripe_signature_header(header_value)
         IN IF DOMAIN parsed = {} THEN FALSE
            ELSE IF "t" \notin DOMAIN parsed \/ "v1" \notin DOMAIN parsed THEN FALSE
            ELSE IF ~IsInt(parsed["t"]) THEN FALSE
            ELSE LET timestamp == IntOf(parsed["t"])
                 IN IF OutsideTolerance(now, timestamp) THEN FALSE
                    ELSE Hmac(secret, <<Str(timestamp), payload>>) = parsed["v1"]

_verify_hmac_signature(payload, signature, secret) ==
    IF ~Truthy(secret) \/ ~Present(signature) THEN FALSE
    ELSE Hmac(secret, payload) = signature

\* The calls of the two verifiers that end in compare_digest's TypeError
\* instead of returning.
_verify_stripe_signature_raises(payload, header_value, secret, now) ==
    /\ Truthy(secret)
    /\ LET parsed == _parse_stripe_signature_header(header_value)
       IN /\ "t" \in DOMAIN parsed /\ "v1" \in DOMAIN parsed
          /\ IsInt(parsed["t"])
          /\ ~OutsideTolerance(now, IntOf(parsed["t"]))
          /\ compare_digest_raises(
                 Hmac(secret, <<Str(IntOf(parsed["t"])), payload>>), parsed["v1"])

_verify_hmac_signature_raises(payload, signature, secret) ==
    /\ Truthy(secret) /\ Present(signature)
    /\ compare_digest_raises(Hmac(secret, payload), signature)


\* The entry of a request in the history: its response code, and whether a
\* background task was queued for it.
Logged(code, queued) ==
    [code |-> code, task |-> IF queued THEN "queued" ELSE "none"]

\* stripe_webhook with add_task moved ahead of the checks.
stripe_webhook_schedule_first ==
    /\ nhook < MaxHooks
    /\ \E h \in StripeHeaders, b \in Bodies, now \in NowMs :
          /\ wreq' = [endpoint |-> "stripe", header |-> h, body |-> b, now |-> now]
          /\ bg' = Append(bg, <<"_process_stripe_event", Json(b)>>)
          /\ IF _verify_stripe_signature_raises(b, h, env.STRIPE_SIGNING_SECRET, now)
             THEN wresp' = [code |-> 500, detail |-> "Internal Server Error"]
             ELSE IF Truthy(env.STRIPE_SIGNING_SECRET)
                /\ ~_verify_stripe_signature(b, h, env.STRIPE_SIGNING_SECRET, now)
             THEN wresp' = [code |-> 400, detail |-> "Invalid signature"]
             ELSE IF ~JsonOk(b)
             THEN wresp' = [code |-> 400, detail |-> "Invalid JSON"]
             ELSE wresp' = [code |-> 200, received |-> TRUE]
    /\ nhook' = nhook + 1
    /\ hooklog' = Append(hooklog, Logged(wresp'.code, Len(bg') > Len(bg)))
    /\ UNCHANGED env
    /\ UNCHANGED <<lvars, cvars, gvars, mvars, fvars, svars, ovars>>

stripe_webhook ==
    /\ nhook < MaxHooks
    /\ \E h \in StripeHeaders, b \in Bodies, now \in NowMs :
          /\ wreq' = [endpoint |-> "stripe", header |-> h, body |-> b, now |-> now]
          /\ IF _verify_stripe_signature_raises(b, h, env.STRIPE_SIGNING_SECRET, now)
             THEN /\ wresp' = [code |-> 500, detail |-> "Internal Server Error"]
                  /\ UNCHANGED bg
             ELSE IF Truthy(env.STRIPE_SIGNING_SECRET)
                /\ ~_verify_stripe_signature(b, h, env.STRIPE_SIGNING_SECRET, now)
             THEN /\ wresp' = [code |-> 400, detail |-> "Invalid signature"]
                  /\ UNCHANGED bg
             ELSE IF ~JsonOk(b)
             THEN /\ wresp' = [code |-> 400, detail |-> "Invalid JSON"]
                  /\ UNCHANGED bg
             ELSE /\ bg' = Append(bg, <<"_process_stripe_event", Json(b)>>)
                  /\ wresp' = [code |-> 200, received |-> TRUE]
    /\ nhook' = nhook + 1
    /\ hooklog' = Append(hooklog, Logged(wresp'.code, Len(bg') > Len(bg)))
    /\ UNCHANGED env
    /\ UNCHANGED <<lvars, cvars, gvars, mvars, fvars, svars, ovars>>

generic_webhook ==
    /\ nhook < MaxHooks
    \* The X-Signature header; <<>> is the header absent or empty.
    /\ \E h \in {<<>>, Hmac("other", "b_obj"), Garbage, NonAscii}
                    \cup {Hmac("gsec", x) : x \in Bodies},
          b \in Bodies :
          /\ wreq' = [endpoint |-> "generic", header |-> h, body |-> b]
          /\ IF _verify_hmac_signature_raises(b, h, env.WEBHOOK_SECRET)
             THEN /\ wresp' = [code |-> 500, detail |-> "Internal Server Error"]
                  /\ UNCHANGED bg
             ELSE IF Truthy(env.WEBHOOK_SECRET)
                /\ ~_verify_hmac_signature(b, h, env.WEBHOOK_SECRET)
             THEN /\ wresp' = [code |-> 400, detail |-> "Invalid signature"]
                  /\ UNCHANGED bg
             ELSE IF ~JsonOk(b)
             THEN /\ wresp' = [code |-> 400, detail |-> "Invalid JSON"]
                  /\ UNCHANGED bg
             ELSE /\ bg' = Append(bg, <<"_process_generic_event", Json(b)>>)
                  /\ wresp' = [code |-> 200, received |-> TRUE]
    /\ nhook' = nhook + 1
    /\ hooklog' = Append(hooklog, Logged(wresp'.code, Len(bg') > Len(bg)))
    /\ UNCHANGED env
    /\ UNCHANGED <<lvars, cvars, gvars, mvars, fvars, svars, ovars>>

\* _process_stripe_event: event.get("type", "") and
\* event.get("data", {}).get("object", {}) run before the try and raise
\* AttributeError on a value without .get; the handlers called inside the
\* try only log.
_process_stripe_event(event) ==
    IF ~IsObject(event) THEN "raised"
    ELSE IF event.value # "b_obj" THEN "raised"
    ELSE "ok"

\* _process_generic_event: payload.get("type") with no try around it.
_process_generic_event(payload) ==
    IF ~IsObject(payload) THEN "raised" ELSE "ok"

\* The coroutine a background task runs, applied to its argument.
ProcessOutcome(task) ==
    IF task[1] = "_process_stripe_event" THEN _process_stripe_event(task[2])
    ELSE _process_generic_event(task[2])

\* The request whose background task is the oldest one not yet run.
OldestQueued ==
    CHOOSE i \in 1..Len(hooklog) :
        /\ hooklog[i].task = "queued"
        /\ \A j \in 1..(i - 1) : hooklog[j].task # "queued"

\* A background failure turned into the response of its request.
run_background_task_surfacing ==
    /\ bg # <<>>
    /\ bg' = Tail(bg)
    /\ hooklog' = [hooklog EXCEPT ![OldestQueued] =
                      IF ProcessOutcome(Head(bg)) = "raised"
                      THEN [code |-> 500, task |-> "raised"]
                      ELSE [@ EXCEPT !.task = "ok"]]
    /\ UNCHANGED <<env, wreq, wresp, nhook>>
    /\ UNCHANGED <<lvars, cvars, gvars, mvars, fvars, svars, ovars>>

\* The response has been sent: the oldest background task runs, and an
\* exception it raises goes to the server's log only.
run_background_task ==
    /\ bg # <<>>
    /\ bg' = Tail(bg)
    /\ hooklog' = [hooklog EXCEPT ![OldestQueued].task = ProcessOutcome(Head(bg))]
    /\ UNCHANGED <<env, wreq, wresp, nhook>>
    /\ UNCHANGED <<lvars, cvars, gvars, mvars, fvars, svars, ovars>>

WebNext == stripe_webhook \/ generic_webhook \/ run_background_task

\* A deterministic state of each component for the behaviours of the others.
CrudIdle ==
    /\ payments = <<>>
    /\ creq = [op |-> "none"]
    /\ cresp = [code |-> 0]
    /\ nreq = 0
    /\ created_with = <<>>
    /\ inflight = [q \in Slots |->
                     [pc |-> "idle", id |-> 0, description |-> None,
                      status |-> None, result |-> <<>>, code |-> 0]]

WebIdle ==
    /\ env = [STRIPE_SIGNING_SECRET |-> None, WEBHOOK_SECRET |-> None]
    /\ wreq = [endpoint |-> "none"]
    /\ wresp = [code |-> 0]
    /\ bg = <<>>
    /\ nhook = 0
    /\ hooklog = <<>>

\* ------------------------------ Gateway router (app/routers/payments.py)
\* Identifiers as sequences of characters, so that order_id + "|" +
\* payment_id is a concatenation.
OrderIds == {<<"o1">>, <<"o1", "|", "p1">>}
GatewayPaymentIds == {<<"p1">>, <<"p1", "|", "p1">>}
Message(order_id, payment_id) == order_id \o <<"|">> \o payment_id



_verify_signature(received_signature, payload, secret) ==
    IF ~Truthy(secret) THEN FALSE
    ELSE Hmac(secret, payload) = received_signature

_verify_signature_raises(received_signature, payload, secret) ==
    /\ Truthy(secret)
    /\ compare_digest_raises(Hmac(secret, payload), received_signature)



GatewayIdle ==
    /\ genv = [RAZORPAY_KEY_SECRET |-> "", RAZORPAY_WEBHOOK_SECRET |-> ""]
    /\ greq = [endpoint |-> "none"]
    /\ gresp = [code |-> 0]
    /\ ngw = 0

verify_payment ==
    /\ ngw < MaxGateway
    \* razorpay_signature: the digest of any message under the configured
    \* or another key, the empty string, a text that is no digest, or a text
    \* with a non-ASCII character.
    /\ \E o \in OrderIds, p \in GatewayPaymentIds,
          sig \in {Hmac(k, Message(o2, p2)) :
                      k \in {"s3cret", "other"}, o2 \in OrderIds,
                      p2 \in GatewayPaymentIds}
                    \cup {<<>>, Garbage, NonAscii} :
          /\ greq' = [endpoint |-> "verify-payment", razorpay_order_id |-> o,
                      razorpay_payment_id |-> p, razorpay_signature |-> sig]
          /\ gresp' =
               IF ~Truthy(genv.RAZORPAY_KEY_SECRET)
               THEN [code |-> 500, detail |-> "Razorpay secret not configured"]
               ELSE LET computed == Hmac(genv.RAZORPAY_KEY_SECRET, Message(o, p))
                    IN IF compare_digest_raises(computed, sig)
                       THEN [code |-> 500, detail |-> "Signature verification failed"]
                       ELSE IF computed # sig
                       THEN [code |-> 200, valid |-> FALSE,
                             reason |-> "signature_mismatch"]
                       ELSE [code |-> 200, valid |-> TRUE, reason |-> None]
    /\ ngw' = ngw + 1
    /\ UNCHANGED genv
    /\ UNCHANGED <<lvars, cvars, wvars, mvars, fvars, svars, ovars>>

razorpay_webhook ==
    /\ ngw < MaxGateway
    \* X-Razorpay-Signature; <<>> is the header absent or empty.
    /\ \E h \in {<<>>, Hmac("other", "b_obj"), Garbage, NonAscii}
                    \cup {Hmac("s3cret", x) : x \in Bodies},
          b \in Bodies :
          /\ greq' = [endpoint |-> "webhook", signature |-> h, body |-> b]
          /\ gresp' =
               IF ~Truthy(genv.RAZORPAY_WEBHOOK_SECRET)
               THEN [code |-> 500, detail |-> "Webhook secret not configured"]
               ELSE IF ~Present(h)
               THEN [code |-> 400, detail |-> "Missing signature header"]
               ELSE IF _verify_signature_raises(h, b, genv.RAZORPAY_WEBHOOK_SECRET)
               THEN [code |-> 500, detail |-> "Webhook processing error"]
               ELSE IF ~_verify_signature(h, b, genv.RAZORPAY_WEBHOOK_SECRET)
               THEN [code |-> 400, detail |-> "Invalid signature"]
               \* request.json(), then event.get("event"): raises unless the
               \* body is a JSON object.
               ELSE IF ~IsObject(Json(b))
               THEN [code |-> 500, detail |-> "Webhook processing error"]
               ELSE [code |-> 200, status |-> "ok"]
    /\ ngw' = ngw + 1
    /\ UNCHANGED genv
    /\ UNCHANGED <<lvars, cvars, wvars, mvars, fvars, svars, ovars>>

GatewayNext == verify_payment \/ razorpay_webhook

\* ------------- PaymentTransaction.mark_completed / mark_failed (models.py)
\* A DateTimeField: NULL, a time of the store's clock, or (on an instance
\* only) the unevaluated expression models.functions.Now().
NullTime == [kind |-> "null", at |-> 0]
At(t) == [kind |-> "time", at |-> t]
NowExpr == [kind |-> "expr", at |-> 0]

Reasons == {"", "declined", "timeout"}


MarkIdle ==
    /\ mrow = [status |-> STATUS_PENDING, completed_at |-> NullTime,
               failure_reasons |-> <<>>]
    /\ minst = mrow
    /\ mlast = [op |-> "none"]
    /\ nmarks = 0
    /\ mgiven = <<>>

\* mark_completed without its status test.
mark_completed_unconditional ==
    /\ nmarks < MaxMarks
    /\ mlast' = [op |-> "mark_completed"]
    /\ minst' = [minst EXCEPT !.status = STATUS_COMPLETED, !.completed_at = NowExpr]
    /\ mrow' = [mrow EXCEPT !.status = STATUS_COMPLETED,
                            !.completed_at = At(nmarks + 1)]
    /\ nmarks' = nmarks + 1
    /\ UNCHANGED mgiven
    /\ UNCHANGED <<lvars, cvars, wvars, gvars, fvars, svars, ovars>>

mark_completed ==
    /\ nmarks < MaxMarks
    /\ mlast' = [op |-> "mark_completed"]
    /\ IF minst.status # STATUS_COMPLETED
       THEN /\ minst' = [minst EXCEPT !.status = STATUS_COMPLETED,
                                      !.completed_at = NowExpr]
            /\ mrow' = [mrow EXCEPT !.status = STATUS_COMPLETED,
                                    !.completed_at = At(nmarks + 1)]
       ELSE UNCHANGED <<minst, mrow>>
    /\ nmarks' = nmarks + 1
    /\ UNCHANGED mgiven
    /\ UNCHANGED <<lvars, cvars, wvars, gvars, fvars, svars, ovars>>

\* mark_failed assigning a fresh one-element list instead of appending.
mark_failed_overwrite ==
    /\ nmarks < MaxMarks
    /\ \E reason \in Reasons :
          LET reasons == IF reason # "" THEN <<reason>>
                         ELSE minst.failure_reasons
          IN /\ mlast' = [op |-> "mark_failed", reason |-> reason]
             /\ minst' = [minst EXCEPT !.status = STATUS_FAILED,
                                       !.failure_reasons = reasons]
             /\ mrow' = [mrow EXCEPT !.status = STATUS_FAILED,
                                     !.failure_reasons = reasons]
             /\ mgiven' = IF reason # "" THEN Append(mgiven, reason) ELSE mgiven
    /\ nmarks' = nmarks + 1
    /\ UNCHANGED <<lvars, cvars, wvars, gvars, fvars, svars, ovars>>

\* self.status = FAILED; a truthy reason is appended to
\* metadata.setdefault("failure_reasons", []); save(update_fields=
\* ["status", "metadata"]) writes both columns from the instance.
mark_failed ==
    /\ nmarks < MaxMarks
    /\ \E reason \in Reasons :
          LET reasons == IF reason # "" THEN Append(minst.failure_reasons, reason)
                         ELSE minst.failure_reasons
          IN /\ mlast' = [op |-> "mark_failed", reason |-> reason]
             /\ minst' = [minst EXCEPT !.status = STATUS_FAILED,
                                       !.failure_reasons = reasons]
             /\ mrow' = [mrow EXCEPT !.status = STATUS_FAILED,
                                     !.failure_reasons = reasons]
             /\ mgiven' = IF reason # "" THEN Append(mgiven, reason) ELSE mgiven
    /\ nmarks' = nmarks + 1
    /\ UNCHANGED <<lvars, cvars, wvars, gvars, fvars, svars, ovars>>

MarkNext == mark_completed \/ mark_failed

\* ------------------------------------------------ settings (app/config.py)
\* The environment variables behind the four settings validate_required
\* looks at; the other settings are read by get_config in the same way.
EnvNames == {"SECRET_KEY", "STRIPE_API_KEY", "PAYPAL_CLIENT_ID",
             "PAYPAL_CLIENT_SECRET"}
\* (a value of None: the variable is not set)

\* Threads that call get_config.
Threads == {"t1", "t2"}

\* os.getenv(name, default)
Getenv(name, default) == IF osenv[name] = None THEN default ELSE osenv[name]

\* The Config(...) that the body of get_config builds from os.environ.
Config ==
    [SECRET_KEY |-> Getenv("SECRET_KEY", ""),
     STRIPE_API_KEY |-> Getenv("STRIPE_API_KEY", None),
     PAYPAL_CLIENT_ID |-> Getenv("PAYPAL_CLIENT_ID", None),
     PAYPAL_CLIENT_SECRET |-> Getenv("PAYPAL_CLIENT_SECRET", None)]


\* A provider counted as soon as either PayPal setting is present.
any_payment_provider_configured_either(self) ==
    \E x \in {self.STRIPE_API_KEY, self.PAYPAL_CLIENT_ID,
              self.PAYPAL_CLIENT_SECRET} : Truthy(x)

\* any(bool(x) for x in (STRIPE_API_KEY, PAYPAL_CLIENT_ID and PAYPAL_CLIENT_SECRET)),
\* where `a and b` is a when a is falsy and b otherwise.
any_payment_provider_configured(self) ==
    \E x \in {self.STRIPE_API_KEY,
              IF Truthy(self.PAYPAL_CLIENT_ID)
              THEN self.PAYPAL_CLIENT_SECRET
              ELSE self.PAYPAL_CLIENT_ID} : Truthy(x)

MissingSecretKey == "SECRET_KEY"
MissingProvider ==
    "payment provider (STRIPE_API_KEY or PAYPAL_CLIENT_ID+PAYPAL_CLIENT_SECRET)"

\* The list `missing`, and the RuntimeError raised when it is not empty.
validate_required(self) ==
    LET missing == (IF ~Truthy(self.SECRET_KEY) THEN <<MissingSecretKey>> ELSE <<>>)
                   \o (IF ~any_payment_provider_configured(self)
                       THEN <<MissingProvider>> ELSE <<>>)
    IN [cfg |-> self, raised |-> missing # <<>>, missing |-> missing]

ConfigIdle ==
    /\ osenv = [n \in EnvNames |-> None]
    /\ cache = <<>>
    /\ cthr = [t \in Threads |-> [pc |-> "idle", after |-> FALSE, held |-> <<>>]]
    /\ vres = <<>>
    /\ clog = <<>>
    /\ ncfg = 0
    /\ nenv = 0

\* Some code of the process sets or unsets an environment variable.
setenv ==
    /\ nenv < MaxEnvSets
    /\ \E n \in EnvNames, v \in {None, "", "x"} :
          /\ v # osenv[n]
          /\ osenv' = [osenv EXCEPT ![n] = v]
    /\ nenv' = nenv + 1
    /\ UNCHANGED <<cache, cthr, vres, clog, ncfg>>
    /\ UNCHANGED <<lvars, cvars, wvars, gvars, mvars, svars, ovars>>

\* get_config with no cache in front of it: every call builds a Config.
get_config_lookup_uncached(t) ==
    /\ cthr[t].pc = "idle"
    /\ ncfg < MaxConfigCalls
    /\ ncfg' = ncfg + 1
    /\ cthr' = [cthr EXCEPT ![t] = [pc |-> "build", after |-> clog # <<>>, held |-> @.held]]
    /\ UNCHANGED <<osenv, cache, vres, clog, nenv>>
    /\ UNCHANGED <<lvars, cvars, wvars, gvars, mvars, svars, ovars>>

\* A thread calls get_config(): the lru_cache wrapper looks the call up.
\* A hit returns the cached Config; a miss goes on to call the function.
get_config_lookup(t) ==
    /\ cthr[t].pc = "idle"
    /\ ncfg < MaxConfigCalls
    /\ ncfg' = ncfg + 1
    /\ IF cache # <<>>
       THEN /\ cthr' = [cthr EXCEPT ![t] = [pc |-> "idle", after |-> FALSE, held |-> cache]]
            /\ clog' = Append(clog, [after |-> clog # <<>>, ret |-> cache[1],
                                     stale |-> cache[1] # Config])
       ELSE /\ cthr' = [cthr EXCEPT ![t] = [pc |-> "build", after |-> clog # <<>>, held |-> @.held]]
            /\ UNCHANGED clog
    /\ UNCHANGED <<osenv, cache, vres, nenv>>
    /\ UNCHANGED <<lvars, cvars, wvars, gvars, mvars, svars, ovars>>

\* After a miss: the function body builds a Config from os.environ; the
\* wrapper stores it unless another thread stored one meanwhile, and returns
\* the one just built.
get_config_build(t) ==
    /\ cthr[t].pc = "build"
    /\ cache' = IF cache = <<>> THEN <<Config>> ELSE cache
    /\ cthr' = [cthr EXCEPT ![t] = [pc |-> "idle", after |-> FALSE, held |-> <<Config>>]]
    /\ clog' = Append(clog, [after |-> cthr[t].after, ret |-> Config,
                             stale |-> FALSE])
    /\ UNCHANGED <<osenv, vres, ncfg, nenv>>
    /\ UNCHANGED <<lvars, cvars, wvars, gvars, mvars, svars, ovars>>

\* A thread calls validate_required() on the Config it holds.
validate_required_call(t) ==
    /\ cthr[t].pc = "idle"
    /\ cthr[t].held # <<>>
    /\ vres' = <<validate_required(cthr[t].held[1])>>
    /\ UNCHANGED <<osenv, cache, cthr, clog, ncfg, nenv>>
    /\ UNCHANGED <<lvars, cvars, wvars, gvars, mvars, svars, ovars>>

ConfigNext ==
    \/ setenv
    \/ \E t \in Threads :
          \/ get_config_lookup(t) \/ get_config_build(t)
          \/ validate_required_call(t)

\* ---------------------------- get_db (app/main.py, app/database.py)
\* A request served with `db: Session = Depends(get_db)`: the framework
\* runs the generator up to its yield, calls the handler with the session,
\* and then resumes the generator (the handler returned) or throws the
\* handler's exception into it at the yield.

\* How each handler can leave: by its return, by an HTTPException it
\* raises, or by an exception of a statement it runs (db.commit()).
HandlerExits(h) ==
    CASE h = "create_payment" -> {"return", "error"}
      [] h = "get_payment"    -> {"return", "404"}
      [] h = "list_payments"  -> {"return"}
      [] h = "update_payment" -> {"return", "404", "400", "error"}
      [] h = "delete_payment" -> {"return", "404", "error"}



SessionIdle ==
    /\ sess = <<>>
    /\ rq = [q \in Slots |-> [pc |-> "idle", handler |-> "none", dep |-> "none",
                              session |-> 0, exit |-> "none"]]

\* db = SessionLocal(); yield db
get_db(q) ==
    /\ rq[q].pc \in {"idle", "ended"}
    /\ Len(sess) < MaxSessions
    /\ sess' = Append(sess, [open |-> TRUE, closes |-> 0])
    /\ \E h \in {"create_payment", "get_payment", "list_payments",
                  "update_payment", "delete_payment"},
          g \in {"main", "database"} :
          rq' = [rq EXCEPT ![q] = [pc |-> "handler", handler |-> h, dep |-> g,
                                   session |-> Len(sess) + 1, exit |-> "none"]]
    /\ UNCHANGED <<lvars, cvars, wvars, gvars, mvars, fvars, ovars>>

\* The handler runs with the session and leaves.
handler(q) ==
    /\ rq[q].pc = "handler"
    /\ \E e \in HandlerExits(rq[q].handler) :
          rq' = [rq EXCEPT ![q].pc = "yielded", ![q].exit = e]
    /\ UNCHANGED sess
    /\ UNCHANGED <<lvars, cvars, wvars, gvars, mvars, fvars, ovars>>

\* db.close()
Close(s) == [sess EXCEPT ![s] = [open |-> FALSE, closes |-> @.closes + 1]]

\* get_db with db.close() after the yield and no try / finally around it.
get_db_no_finally(q) ==
    /\ rq[q].pc = "yielded"
    /\ sess' = IF rq[q].exit = "return" THEN Close(rq[q].session) ELSE sess
    /\ rq' = [rq EXCEPT ![q].pc = "ended"]
    /\ UNCHANGED <<lvars, cvars, wvars, gvars, mvars, fvars, ovars>>

\* The generator leaves its yield, normally or by the exception thrown in:
\* the finally block runs db.close() (database.py: `if db:` first, and a
\* Session object is truthy).
get_db_finally(q) ==
    /\ rq[q].pc = "yielded"
    /\ sess' = Close(rq[q].session)
    /\ rq' = [rq EXCEPT ![q].pc = "ended"]
    /\ UNCHANGED <<lvars, cvars, wvars, gvars, mvars, fvars, ovars>>

SessionNext ==
    \E q \in Slots : get_db(q) \/ handler(q) \/ get_db_finally(q)

\* ------------- Refund.process on transactions in opposite directions
\* Two COMPLETED transactions of amount 1, "ab" paid from account A to B
\* and "ba" paid from B to A, each with one recorded refund of 1. The store
\* is the one of the ledger above; in addition, when statements of two
\* transactions wait for row locks the other holds, the store ends the
\* wait by failing the statement of one of them (deadlock detected).
Txs == {"ab", "ba"}
Callers == {"c1", "c2"}

\* src = tx.to_account; dst = tx.from_account
Src(c) == IF ocall[c].tx = "ab" THEN "B" ELSE "A"
Dst(c) == IF ocall[c].tx = "ab" THEN "A" ELSE "B"

CallerIdle ==
    [pc |-> "idle", tx |-> "ab", tx_status |-> NULL, balance |-> 0,
     delta |-> ZeroDelta, wproc |-> FALSE, wstat |-> FALSE, result |-> "none"]


OppositeIdle ==
    /\ obal = [a \in Accounts |-> 0]
    /\ olock = [a \in Accounts |-> NULL]
    /\ otx = [t \in Txs |-> STATUS_COMPLETED]
    /\ oref = [t \in Txs |-> FALSE]
    /\ ocall = [c \in Callers |-> CallerIdle]
    /\ ocalls = 0

\* The lock of row a is free for c to take.
Grantable(c, a) == olock[a] \in {NULL, c}

\* c's next statement needs a row lock another transaction holds.
WaitsFor(c) ==
    CASE ocall[c].pc = "select" /\ ~Grantable(c, Src(c)) -> {olock[Src(c)]}
      [] ocall[c].pc = "save_dst" /\ ~Grantable(c, Dst(c)) -> {olock[Dst(c)]}
      [] OTHER -> {}

\* An exception leaves the atomic block with the locks still held (the
\* transaction is left open).
LeaveAtomicHolding(c, res) ==
    /\ ocall' = [ocall EXCEPT ![c] = [@ EXCEPT !.pc = "done", !.result = res]]
    /\ UNCHANGED <<obal, olock, otx, oref, ocalls>>

\* An exception leaves `with transaction.atomic()`: ROLLBACK, which
\* discards the writes and releases the row locks.
LeaveAtomic(c, res) ==
    /\ ocall' = [ocall EXCEPT ![c] =
                    [@ EXCEPT !.pc = "done", !.result = res,
                              !.delta = ZeroDelta, !.wproc = FALSE,
                              !.wstat = FALSE]]
    /\ olock' = [a \in Accounts |-> IF olock[a] = c THEN NULL ELSE olock[a]]
    /\ UNCHANGED <<obal, otx, oref, ocalls>>

\* A caller loads the refund of a transaction, with the transaction, and
\* calls process() on it.
process(c) ==
    /\ ocall[c].pc \in {"idle", "done"}
    /\ ocalls < MaxProcessCalls
    /\ ocalls' = ocalls + 1
    /\ \E t \in Txs :
          ocall' = [ocall EXCEPT ![c] =
                       [CallerIdle EXCEPT !.pc = "call", !.tx = t,
                                          !.tx_status = otx[t]]]
    /\ UNCHANGED <<obal, olock, otx, oref>>
    /\ UNCHANGED <<lvars, cvars, wvars, gvars, mvars, fvars, svars>>

\* if tx.status not in (COMPLETED,): raise; both accounts are present.
process_check(c) ==
    /\ ocall[c].pc = "call"
    /\ ocall' = [ocall EXCEPT ![c] =
                    IF ~CanRefund(ocall[c].tx_status)
                    THEN [@ EXCEPT !.pc = "done", !.result = "invalid_state"]
                    ELSE [@ EXCEPT !.pc = "select"]]
    /\ UNCHANGED <<obal, olock, otx, oref, ocalls>>
    /\ UNCHANGED <<lvars, cvars, wvars, gvars, mvars, fvars, svars>>

\* src = Account.objects.select_for_update().get(pk=src.pk)
process_select_for_update(c) ==
    /\ ocall[c].pc = "select"
    /\ Grantable(c, Src(c))
    /\ olock' = [olock EXCEPT ![Src(c)] = c]
    /\ ocall' = [ocall EXCEPT ![c].pc = "save_src",
                              ![c].balance = obal[Src(c)] + ocall[c].delta[Src(c)]]
    /\ UNCHANGED <<obal, otx, oref, ocalls>>
    /\ UNCHANGED <<lvars, cvars, wvars, gvars, mvars, fvars, svars>>

\* if src.balance < self.amount: raise; src.balance = F("balance") -
\* self.amount; src.save(update_fields=["balance"])
process_save_src(c) ==
    /\ ocall[c].pc = "save_src"
    /\ IF ~Sufficient(ocall[c].balance, 1)
       THEN LeaveAtomic(c, "insufficient_funds")
       ELSE /\ ocall' = [ocall EXCEPT ![c].pc = "save_dst",
                                      ![c].delta[Src(c)] = @ - 1]
            /\ UNCHANGED <<obal, olock, otx, oref, ocalls>>
    /\ UNCHANGED <<lvars, cvars, wvars, gvars, mvars, fvars, svars>>

\* dst.balance = F("balance") + self.amount; dst.save(update_fields=
\* ["balance"]): the UPDATE takes the lock of dst's row.
process_save_dst(c) ==
    /\ ocall[c].pc = "save_dst"
    /\ Grantable(c, Dst(c))
    /\ olock' = [olock EXCEPT ![Dst(c)] = c]
    /\ ocall' = [ocall EXCEPT ![c].pc = "stamp",
                              ![c].delta[Dst(c)] = @ + 1]
    /\ UNCHANGED <<obal, otx, oref, ocalls>>
    /\ UNCHANGED <<lvars, cvars, wvars, gvars, mvars, fvars, svars>>

\* self.processed_at = Now(); self.save(...); total_refunded = the one
\* refund of 1 >= tx.amount: tx.status = REFUNDED; tx.save(...)
process_stamp(c) ==
    /\ ocall[c].pc = "stamp"
    /\ ocall' = [ocall EXCEPT ![c].pc = "commit", ![c].wproc = TRUE,
                              ![c].wstat = TRUE]
    /\ UNCHANGED <<obal, olock, otx, oref, ocalls>>
    /\ UNCHANGED <<lvars, cvars, wvars, gvars, mvars, fvars, svars>>

\* The atomic block ends: COMMIT.
process_commit(c) ==
    /\ ocall[c].pc = "commit"
    /\ obal' = [a \in Accounts |-> obal[a] + ocall[c].delta[a]]
    /\ olock' = [a \in Accounts |-> IF olock[a] = c THEN NULL ELSE olock[a]]
    /\ oref' = [oref EXCEPT ![ocall[c].tx] = @ \/ ocall[c].wproc]
    /\ otx' = [otx EXCEPT ![ocall[c].tx] =
                  IF ocall[c].wstat THEN STATUS_REFUNDED ELSE @]
    /\ ocall' = [ocall EXCEPT ![c] =
                    [@ EXCEPT !.pc = "done", !.result = "ok",
                              !.delta = ZeroDelta, !.wproc = FALSE,
                              !.wstat = FALSE]]
    /\ UNCHANGED ocalls
    /\ UNCHANGED <<lvars, cvars, wvars, gvars, mvars, fvars, svars>>

\* c waits for a lock held by a caller that waits for a lock c holds: the
\* store fails c's statement, and the error leaves the atomic block.
deadlock_detected(c) ==
    /\ \E d \in WaitsFor(c) : c \in WaitsFor(d)
    /\ LeaveAtomic(c, "deadlock_detected")
    /\ UNCHANGED <<lvars, cvars, wvars, gvars, mvars, fvars, svars>>


OppositeNext ==
    \E c \in Callers :
        \/ process(c) \/ process_check(c) \/ process_select_for_update(c)
        \/ process_save_src(c) \/ process_save_dst(c) \/ process_stamp(c)
        \/ process_commit(c) \/ deadlock_detected(c)

\* ---------------------------------------------------------- specifications
AccountNext ==
    \E p \in Procs :
        \/ CreditCall(p) \/ CreditUpdate(p) \/ CreditCommit(p)
        \/ DebitCall(p) \/ DebitSelectForUpdate(p) \/ DebitSave(p) \/ DebitCommit(p)
        \/ Crash(p)

RefundNext ==
    \E p \in Procs :
        \/ StartRefund(p)
        \/ ProcessCall(p) \/ ProcessSelectForUpdate(p) \/ ProcessSaveSrc(p)
        \/ ProcessSaveDst(p) \/ ProcessStamp(p) \/ ProcessTotal(p)
        \/ ProcessCommit(p)
        \/ Crash(p)

LedgerNext ==
    \E p \in Procs :
        \/ CreditCall(p) \/ CreditUpdate(p) \/ CreditCommit(p)
        \/ DebitCall(p) \/ DebitSelectForUpdate(p) \/ DebitSave(p) \/ DebitCommit(p)
        \/ StartRefund(p)
        \/ ProcessCall(p) \/ ProcessSelectForUpdate(p) \/ ProcessSaveSrc(p)
        \/ ProcessSaveDst(p) \/ ProcessStamp(p) \/ ProcessTotal(p)
        \/ ProcessCommit(p)
        \/ Crash(p)

vars == <<lvars, cvars, wvars, gvars, mvars, fvars, svars, ovars>>

\* Concurrent credits and debits.
\* The accounts alone: the transaction and its refunds are not touched.
InitAccount ==
    /\ LedgerInit
    /\ txn = [from_account |-> "A", to_account |-> "B", amount |-> 1,
              status |-> STATUS_COMPLETED]
    /\ \A r \in Refunds : refunds[r].amount = 1
    /\ CrudIdle /\ WebIdle /\ GatewayIdle /\ MarkIdle
    /\ ConfigIdle /\ SessionIdle /\ OppositeIdle
SpecAccount == InitAccount /\ [][AccountNext]_vars

\* Concurrent Refund.process calls, over every transaction status and
\* account linkage.
InitRefund == LedgerInit /\ CrudIdle /\ WebIdle /\ GatewayIdle /\ MarkIdle /\ ConfigIdle /\ SessionIdle /\ OppositeIdle
SpecRefund == InitRefund /\ [][RefundNext]_vars

\* Credits, debits and refunds together.
\* Refunds of a completed transaction between A and B, next to credits and
\* debits of the same accounts.
InitLedger ==
    /\ LedgerInit
    /\ txn = [from_account |-> "A", to_account |-> "B", amount |-> MaxTxAmount,
              status |-> STATUS_COMPLETED]
    /\ \A r \in Refunds : refunds[r].amount = MaxAmt
    /\ CrudIdle /\ WebIdle /\ GatewayIdle /\ MarkIdle
    /\ ConfigIdle /\ SessionIdle /\ OppositeIdle
SpecLedger == InitLedger /\ [][LedgerNext]_vars

\* The payment CRUD service, one request after another.
InitCrud ==
    /\ CrudIdle /\ LedgerIdle /\ WebIdle /\ GatewayIdle /\ MarkIdle
    /\ ConfigIdle /\ SessionIdle /\ OppositeIdle
SpecCrud == InitCrud /\ [][CrudNext]_vars

\* update_payment requests on stored records, served at the same time.
InitUpdate ==
    /\ payments \in [{1} -> [amount_cents : {AmountCents(Small(10))},
                              currency : {"USD"}, method : {"card"},
                              status : {PENDING, COMPLETED, FAILED, REFUNDED},
                              description : {None}, created_at : {0}]]
    /\ created_with = [i \in {1} |-> Small(10)]
    /\ creq = [op |-> "none"]
    /\ cresp = [code |-> 0]
    /\ nreq = 0
    /\ inflight = [q \in Slots |->
                     [pc |-> "idle", id |-> 0, description |-> None,
                      status |-> None, result |-> <<>>, code |-> 0]]
    /\ LedgerIdle /\ WebIdle /\ GatewayIdle /\ MarkIdle
    /\ ConfigIdle /\ SessionIdle /\ OppositeIdle
SpecUpdate == InitUpdate /\ [][UpdateNext]_vars

\* The webhook ingestion router.
InitWebhook ==
    /\ env \in [STRIPE_SIGNING_SECRET : {None, "", "whsec"},
                WEBHOOK_SECRET : {None, "", "gsec"}]
    /\ wreq = [endpoint |-> "none"]
    /\ wresp = [code |-> 0]
    /\ bg = <<>>
    /\ nhook = 0
    /\ hooklog = <<>>
    /\ LedgerIdle /\ CrudIdle /\ GatewayIdle /\ MarkIdle
    /\ ConfigIdle /\ SessionIdle /\ OppositeIdle
SpecWebhook == InitWebhook /\ [][WebNext]_vars

\* The gateway router. os.getenv(NAME, ""): a secret is a string, empty
\* when unset.
InitGateway ==
    /\ genv \in [RAZORPAY_KEY_SECRET : {"", "s3cret"},
                 RAZORPAY_WEBHOOK_SECRET : {"", "s3cret"}]
    /\ greq = [endpoint |-> "none"]
    /\ gresp = [code |-> 0]
    /\ ngw = 0
    /\ LedgerIdle /\ CrudIdle /\ WebIdle /\ MarkIdle
    /\ ConfigIdle /\ SessionIdle /\ OppositeIdle
SpecGateway == InitGateway /\ [][GatewayNext]_vars

\* mark_completed and mark_failed on one PaymentTransaction instance.
InitMark ==
    /\ mrow \in [status : STATUS_CHOICES, completed_at : {NullTime, At(0)},
                 failure_reasons : {<<>>}]
    /\ minst = mrow
    /\ mlast = [op |-> "none"]
    /\ nmarks = 0
    /\ mgiven = <<>>
    /\ LedgerIdle /\ CrudIdle /\ WebIdle /\ GatewayIdle
    /\ ConfigIdle /\ SessionIdle /\ OppositeIdle
SpecMark == InitMark /\ [][MarkNext]_vars

\* The settings: get_config, validate_required and os.environ.
InitConfig ==
    /\ osenv \in [EnvNames -> {None, "", "x"}]
    /\ cache = <<>>
    /\ cthr = [t \in Threads |-> [pc |-> "idle", after |-> FALSE, held |-> <<>>]]
    /\ vres = <<>>
    /\ clog = <<>>
    /\ ncfg = 0
    /\ nenv = 0
    /\ LedgerIdle /\ CrudIdle /\ WebIdle /\ GatewayIdle /\ MarkIdle
    /\ SessionIdle /\ OppositeIdle
SpecConfig == InitConfig /\ [][ConfigNext]_vars

\* Requests served with a get_db session; a handler that was called
\* leaves, and the framework then finishes the dependency's generator.
InitSession ==
    /\ SessionIdle /\ LedgerIdle /\ CrudIdle /\ WebIdle /\ GatewayIdle /\ MarkIdle
    /\ ConfigIdle /\ OppositeIdle
SpecSession ==
    /\ InitSession
    /\ [][SessionNext]_vars
    /\ \A q \in Slots : WF_vars(handler(q)) /\ WF_vars(get_db_finally(q))

\* Refund.process calls on two transactions in opposite directions. A
\* call that can take its next step takes it, and the store ends every
\* lock cycle.
InitOpposite ==
    /\ obal \in [Accounts -> 0..1]
    /\ olock = [a \in Accounts |-> NULL]
    /\ otx = [t \in Txs |-> STATUS_COMPLETED]
    /\ oref = [t \in Txs |-> FALSE]
    /\ ocall = [c \in Callers |-> CallerIdle]
    /\ ocalls = 0
    /\ LedgerIdle /\ CrudIdle /\ WebIdle /\ GatewayIdle /\ MarkIdle
    /\ ConfigIdle /\ SessionIdle
SpecOpposite ==
    /\ InitOpposite
    /\ [][OppositeNext]_vars
    /\ \A c \in Callers :
          /\ WF_vars(process_check(c)) /\ WF_vars(process_select_for_update(c))
          /\ WF_vars(process_save_src(c)) /\ WF_vars(process_save_dst(c))
          /\ WF_vars(process_stamp(c)) /\ WF_vars(process_commit(c))
    /\ WF_vars(\E c \in Callers : deadlock_detected(c))

\* ------------------------------------------------------------ properties

Done(p) == proc[p].pc = "done"

\* C1: two concurrent Account.debit calls on one account, each for an
\* amount the initial balance covers alone but not together, and both
\* running to their end, finish under every interleaving with exactly one
\* success and one insufficient-funds failure.
C1_ConcurrentDebits ==
    LET a == proc["p1"].acct
        m1 == proc["p1"].amount
        m2 == proc["p2"].amount
    IN (/\ nops = 2
        /\ \A p \in Procs : Done(p) /\ proc[p].op = "debit"
                            /\ proc[p].result \in {"ok", "insufficient_funds"}
        /\ proc["p2"].acct = a
        /\ m1 <= bal0[a] /\ m2 <= bal0[a] /\ m1 + m2 > bal0[a])
       => /\ {proc[p].result : p \in Procs} = {"ok", "insufficient_funds"}
          /\ \E p \in Procs : proc[p].result = "ok"
                              /\ balance[a] = bal0[a] - proc[p].amount

C1_Witness ==
    /\ nops = 2
    /\ \A p \in Procs : Done(p) /\ proc[p].op = "debit" /\ proc[p].acct = "A"
                        /\ proc[p].amount = MaxAmt
    /\ bal0["A"] = MaxAmt
    /\ proc["p1"].result = "insufficient_funds"
    /\ proc["p2"].result = "ok"
    /\ balance["A"] = 0

\* C2: in every committed state, under any interleaving of credit, debit
\* and Refund.process calls, every account's stored balance is >= 0.
C2_BalanceNonNegative == \A a \in Accounts : balance[a] >= 0

C2_Witness ==
    \E p, q \in Procs :
        /\ Done(p) /\ proc[p].op = "process"
        /\ proc[p].result = "insufficient_funds"
        /\ Done(q) /\ proc[q].op = "debit" /\ proc[q].result = "ok"
        /\ proc[q].acct = "B" /\ proc[q].amount > 0
        /\ bal0["B"] >= proc[p].amount
        /\ balance["B"] = 0

\* C3: no balance update is lost: the stored balance of every account is
\* its initial balance plus the successful credits minus the successful
\* debits, whatever the interleaving of the calls.
C3_NoLostUpdate == \A a \in Accounts : balance[a] = bal0[a] + net[a]

C3_Witness ==
    /\ \A p \in Procs : Done(p) /\ proc[p].result = "ok" /\ proc[p].acct = "A"
    /\ proc["p1"].op = "credit" /\ proc["p1"].amount = 2
    /\ proc["p2"].op = "debit" /\ proc["p2"].amount = 1
    /\ balance["A"] = bal0["A"] + 1

\* C4: Refund.process is all-or-nothing: every step of a call, its
\* validation failures and a crash at any point included, either leaves
\* the committed balances, processed_at and transaction status alone, or
\* at once takes the amount from the refund-source account, adds it to
\* the other account and stamps processed_at (with the status left alone
\* or set to REFUNDED).
C4_AllOrNothing ==
    [][\A p \in Procs :
          (proc[p].op = "process" /\ proc'[p] # proc[p]) =>
             \/ UNCHANGED <<balance, refunds, txn>>
             \/ LET m == proc[p].amount
                    r == proc[p].refund
                    src == txn.to_account
                    dst == txn.from_account
                IN /\ proc'[p].result = "ok"
                   /\ src \in Accounts /\ dst \in Accounts
                   /\ balance'[src] = balance[src] - m
                   /\ balance'[dst] = balance[dst] + m
                   /\ refunds'[r].processed_at
                   /\ refunds'[r].amount = m
                   /\ \A o \in Refunds \ {r} : refunds'[o] = refunds[o]
                   /\ txn' \in {txn, [txn EXCEPT !.status = STATUS_REFUNDED]}
      ]_vars

C4_Witness ==
    \E p, q \in Procs :
        /\ Done(p) /\ proc[p].op = "process" /\ proc[p].result = "crashed"
        /\ Done(q) /\ proc[q].op = "process" /\ proc[q].result = "ok"
        /\ balance["B"] = bal0["B"] - proc[q].amount
        /\ balance["A"] = bal0["A"] + proc[q].amount
        /\ refunds[proc[q].refund].processed_at

\* C5: for a COMPLETED transaction with two recorded refunds r1, r2,
\* r1 < amount <= r1 + r2: after the first refund is processed the
\* transaction is still COMPLETED, and after the second it is REFUNDED.
C5_FirstLeavesCompleted ==
    \A r1, r2 \in Refunds :
        (/\ r1 # r2
         /\ refunds[r1].amount < txn.amount
         /\ txn.amount <= refunds[r1].amount + refunds[r2].amount)
        => /\ (moved[r1] = 1 /\ moved[r2] = 0)
                 => (refunds[r1].processed_at /\ txn.status = STATUS_COMPLETED)
           /\ (moved[r1] = 1 /\ moved[r2] = 1) => txn.status = STATUS_REFUNDED

\* C6: Refund.process marks the transaction REFUNDED only when the amounts
\* of the processed refunds (processed_at set) add up to the transaction
\* amount or more; recorded but unprocessed refunds do not count.
ProcessedTotal == SumAmounts({r \in Refunds : refunds[r].processed_at})

C6_FlipOnlyWhenProcessedCovers ==
    (txn.status = STATUS_REFUNDED /\ \E r \in Refunds : moved[r] > 0)
       => ProcessedTotal >= txn.amount

\* C7: Refund.process on a refund whose transaction, as the call reads it,
\* has a status other than COMPLETED ends at once with an invalid-state
\* error, and changes neither a balance nor a lock, refund or status.
C7_OnlyCompleted ==
    [][\A p \in Procs :
          (/\ proc[p].op = "process" /\ proc[p].pc = "call"
           /\ proc[p].tx_status # STATUS_COMPLETED
           /\ proc'[p] # proc[p])
          => /\ proc'[p].pc = "done"
             /\ proc'[p].result = "invalid_state"
             /\ UNCHANGED <<balance, lock, refunds, txn, moved>>
      ]_vars

C7_Witness ==
    \E p \in Procs :
        /\ Done(p) /\ proc[p].op = "process"
        /\ proc[p].tx_status = STATUS_REFUNDED
        /\ proc[p].result = "invalid_state"
        /\ \E r \in Refunds : moved[r] = 1
        /\ balance["B"] = bal0["B"] - ProcessedTotal

\* C8: update_payment asking for status s' on a record whose stored
\* status is s succeeds iff s' = s or (s, s') is one of pending->completed,
\* pending->failed, pending->refunded, completed->refunded, and is
\* otherwise rejected with 400 naming the pair; on success the stored
\* status is s', on rejection nothing is stored.
C8_TransitionTable ==
    [][(/\ nreq' # nreq /\ creq'.op = "update"
        /\ creq'.id \in DOMAIN payments
        /\ creq'.status # None /\ StatusValid(creq'.status))
       => LET id == creq'.id
              s == payments[id].status
              t == Lower(creq'.status)
              ok == \/ s = t
                    \/ <<s, t>> \in {<<"pending", "completed">>,
                                    <<"pending", "failed">>,
                                    <<"pending", "refunded">>,
                                    <<"completed", "refunded">>}
          IN IF ok
             THEN cresp'.code = 200 /\ payments'[id].status = t
             ELSE /\ cresp'.code = 400
                  /\ cresp'.from = s /\ cresp'.to = t
                  /\ payments' = payments
      ]_vars

C8_Witness ==
    /\ creq.op = "update" /\ creq.status = "pending"
    /\ cresp.code = 400 /\ cresp.from = "completed" /\ cresp.to = "pending"
    /\ payments[creq.id].status = "completed"

\* C9: on the Stripe and generic endpoints a background task is scheduled
\* only after the signature gate has passed (secret unconfigured, or
\* signature valid) and the body has parsed as JSON: a rejected request
\* (400, or the 500 of an error raised inside the gate) schedules none, an
\* accepted one exactly one.
C9_ScheduleAfterGate ==
    [][nhook' # nhook =>
          LET r == wreq'
              stripe == r.endpoint = "stripe"
              secret == IF stripe THEN env.STRIPE_SIGNING_SECRET
                        ELSE env.WEBHOOK_SECRET
              valid == IF stripe
                       THEN _verify_stripe_signature(r.body, r.header, secret, r.now)
                       ELSE _verify_hmac_signature(r.body, r.header, secret)
              raises == IF stripe
                        THEN _verify_stripe_signature_raises(r.body, r.header, secret, r.now)
                        ELSE _verify_hmac_signature_raises(r.body, r.header, secret)
              task == <<IF stripe THEN "_process_stripe_event"
                        ELSE "_process_generic_event", Json(r.body)>>
          IN IF raises
             THEN wresp'.code = 500 /\ bg' = bg
             ELSE IF (~Truthy(secret) \/ valid) /\ JsonOk(r.body)
             THEN wresp'.code = 200 /\ bg' = Append(bg, task)
             ELSE wresp'.code = 400 /\ bg' = bg
      ]_vars

C9_Witness ==
    /\ nhook = 2
    /\ wreq.endpoint = "stripe" /\ Truthy(env.STRIPE_SIGNING_SECRET)
    /\ JsonOk(wreq.body)
    /\ wresp.code = 400
    /\ Len(bg) = 1

\* C10: with a Stripe signing secret configured, a request whose v1 digest
\* is correct for its timestamp t and body is rejected with 400 when
\* |now - t| exceeds the tolerance, and passes the signature check when
\* |now - t| is within it.
CorrectlySigned(r) ==
    \E n \in TsValues :
        r.header = <<<<"t", Str(n)>>,
                     <<"v1", Hmac(env.STRIPE_SIGNING_SECRET, <<Str(n), r.body>>)>>>>

C11_UnconfiguredSkipsVerification ==
    /\ (wreq.endpoint = "stripe" /\ env.STRIPE_SIGNING_SECRET \in {None, ""})
          => IF JsonOk(wreq.body) THEN wresp.code = 200 /\ wresp.received
             ELSE wresp.code = 400 /\ wresp.detail = "Invalid JSON"
    /\ (wreq.endpoint = "generic" /\ env.WEBHOOK_SECRET \in {None, ""})
          => IF JsonOk(wreq.body) THEN wresp.code = 200 /\ wresp.received
             ELSE wresp.code = 400 /\ wresp.detail = "Invalid JSON"

C11_Witness ==
    /\ nhook = 2
    /\ env.STRIPE_SIGNING_SECRET = "" /\ env.WEBHOOK_SECRET = None
    /\ wreq.endpoint = "generic" /\ wreq.header = NonAscii
    /\ ~JsonOk(wreq.body) /\ wresp.code = 400
    /\ hooklog[1] = [code |-> 200, task |-> "queued"]
    /\ bg[1][1] = "_process_stripe_event"

\* C12: with WEBHOOK_SECRET configured, the generic webhook accepts a
\* request iff X-Signature equals the hex HMAC-SHA256 of the raw body under
\* the secret and the body parses as JSON; a missing, empty or different
\* signature is rejected with 400 "Invalid signature" and the body is not
\* parsed.
C12_GenericSignatureGate ==
    (wreq.endpoint = "generic" /\ env.WEBHOOK_SECRET \notin {None, ""})
       => IF wreq.header = Hmac(env.WEBHOOK_SECRET, wreq.body)
          THEN IF JsonOk(wreq.body) THEN wresp.code = 200
               ELSE wresp.code = 400 /\ wresp.detail = "Invalid JSON"
          ELSE wresp.code = 400 /\ wresp.detail = "Invalid signature"

\* C13: for every accepted Stripe or generic request the response
\* {received: true} exists before the background processing of that request
\* starts, and the processing, whether it succeeds or raises, changes no
\* response.
C13_ResponseBeforeProcessing ==
    [][(nhook' = nhook /\ hooklog' # hooklog) =>
          \E i \in 1..Len(hooklog) :
              /\ hooklog[i] = [code |-> 200, task |-> "queued"]
              /\ hooklog'[i].code = 200
              /\ hooklog'[i].task \in {"ok", "raised"}
              /\ \A j \in 1..Len(hooklog) : j # i => hooklog'[j] = hooklog[j]
              /\ Len(hooklog') = Len(hooklog)
              /\ wresp' = wresp
      ]_vars

C13_Witness ==
    /\ Len(hooklog) = 2
    /\ hooklog[1] = [code |-> 200, task |-> "raised"]
    /\ hooklog[2] = [code |-> 200, task |-> "ok"]
    /\ wresp.code = 200 /\ wresp.received
    /\ bg = <<>>

\* C14: the inline gateway webhook decides in this order: no webhook secret
\* configured -> 500, even with the header absent; header absent -> 400;
\* header different from the hex HMAC-SHA256 of the raw body -> 400; it
\* returns {status: ok} only with the secret configured, the header present
\* and the signature matching.
C14_GatewayWebhookOrder ==
    greq.endpoint = "webhook" =>
       LET secret == genv.RAZORPAY_WEBHOOK_SECRET
           matches == greq.signature = Hmac(secret, greq.body)
       IN /\ IF secret = "" THEN gresp.code = 500
             ELSE IF greq.signature = <<>> THEN gresp.code = 400
             ELSE IF ~matches THEN gresp.code = 400
             ELSE TRUE
          /\ gresp.code = 200
                => (secret # "" /\ greq.signature # <<>> /\ matches
                    /\ gresp.status = "ok")

\* C15: verify_payment returns a 500 configuration error when no gateway
\* secret is configured; otherwise {valid: true} iff the submitted signature
\* equals hex(HMAC_SHA256(secret, order_id + "|" + payment_id)), and for
\* every other signature the normal result {valid: false, reason:
\* signature_mismatch}.
C15_VerifyPayment ==
    greq.endpoint = "verify-payment" =>
       LET secret == genv.RAZORPAY_KEY_SECRET
           expected == Hmac(secret, greq.razorpay_order_id \o <<"|">>
                                       \o greq.razorpay_payment_id)
       IN IF secret = ""
          THEN gresp.code = 500
               /\ gresp.detail = "Razorpay secret not configured"
          ELSE IF greq.razorpay_signature = expected
          THEN gresp.code = 200 /\ gresp.valid
          ELSE /\ gresp.code = 200 /\ ~gresp.valid
               /\ gresp.reason = "signature_mismatch"

\* C16: list_payments with status filter f, limit L and offset O returns
\* exactly the stored records whose status is f lower-cased (all records
\* when the filter is absent or empty), newest first, without the first O
\* of them and at most L: the k-th item returned is the matching record
\* with exactly O + k - 1 newer matching records.
C16_ListPaging ==
    (creq.op = "list" /\ cresp.code = 200) =>
       LET f == creq.status
           match == IF f \in {None, ""} THEN DOMAIN payments
                    ELSE {i \in DOMAIN payments : payments[i].status = Lower(f)}
           Newer(i) == {j \in match :
                           payments[j].created_at > payments[i].created_at}
           rest == Cardinality(match) - creq.offset
           want == IF rest < 0 THEN 0
                   ELSE IF rest < creq.limit THEN rest ELSE creq.limit
           items == cresp.items
       IN /\ Len(items) = want
          /\ \A k \in 1..Len(items) :
                /\ items[k].id \in match
                /\ items[k].row = payments[items[k].id]
                /\ Cardinality(Newer(items[k].id)) = creq.offset + k - 1

C16_Witness ==
    /\ creq.op = "list" /\ cresp.code = 200
    /\ creq.status = "pending" /\ creq.limit = 1 /\ creq.offset = 1
    /\ Cardinality(DOMAIN payments) = 2
    /\ Len(cresp.items) = 1
    /\ \E j \in DOMAIN payments :
          payments[j].created_at > cresp.items[1].row.created_at

\* C17: for every positive amount with at most 2 decimal places,
\* create_payment stores exactly amount * 100 cents and answers with the
\* amount sent; a later get_payment returns the amount sent too; and the
\* cents stored for a record never change.
C17_CentsRoundTrip ==
    [][/\ (/\ nreq' # nreq /\ creq'.op = "create"
           /\ (creq'.amount.mag = "small" => creq'.amount.milli > 0)
           /\ creq'.amount.milli % 10 = 0)
          => /\ cresp'.code = 201
             /\ payments'[cresp'.id].amount_cents =
                   [mag |-> creq'.amount.mag, cents |-> creq'.amount.milli \div 10]
             /\ cresp'.amount = creq'.amount
       /\ (nreq' # nreq /\ creq'.op = "get" /\ cresp'.code = 200)
          => cresp'.amount = created_with[creq'.id]
       /\ \A id \in DOMAIN payments \cap DOMAIN payments' :
             payments'[id].amount_cents = payments[id].amount_cents
      ]_vars

\* C18: delete_payment on an existing id removes exactly that record, and
\* from then on get_payment, update_payment and delete_payment for that id
\* answer 404; delete_payment on an absent id answers 404 and leaves the
\* store unchanged.
C18_DeleteThenNotFound ==
    [][nreq' # nreq =>
          /\ creq'.op = "delete" =>
                IF creq'.id \in DOMAIN payments
                THEN /\ cresp'.code = 204
                     /\ DOMAIN payments' = DOMAIN payments \ {creq'.id}
                     /\ \A i \in DOMAIN payments' : payments'[i] = payments[i]
                ELSE cresp'.code = 404 /\ payments' = payments
          /\ (/\ \/ creq'.op \in {"get", "delete"}
                 \/ creq'.op = "update" /\ StatusValid(creq'.status)
              /\ creq'.id \in DOMAIN created_with \ DOMAIN payments)
             => cresp'.code = 404 /\ payments' = payments
      ]_vars

C18_Witness ==
    /\ creq.op = "get" /\ cresp.code = 404
    /\ creq.id \in DOMAIN created_with \ DOMAIN payments
    /\ nreq = 3

\* C19: Account.credit and Account.debit called with a negative amount
\* raise a validation error, and Account.debit called for more than the
\* stored balance raises insufficient-funds; in each case the stored
\* balance is left as it was.
C19_RejectedCallsLeaveBalance ==
    [][\A p \in Procs :
          /\ (/\ proc'[p] # proc[p]
              /\ proc[p].pc \in {"idle", "done"}
              /\ proc'[p].op \in {"credit", "debit"}
              /\ proc'[p].amount < 0)
             => /\ proc'[p].pc = "done"
                /\ proc'[p].result = "invalid_amount"
                /\ balance' = balance /\ lock' = lock
          /\ (/\ proc'[p] # proc[p]
              /\ proc[p].op = "debit" /\ proc[p].pc = "save"
              /\ proc[p].amount > balance[proc[p].acct])
             => /\ proc'[p].pc = "done"
                /\ proc'[p].result \in {"insufficient_funds", "crashed"}
                /\ balance' = balance
      ]_vars

C19_Witness ==
    /\ Done("p1") /\ proc["p1"].op = "credit" /\ proc["p1"].amount < 0
    /\ proc["p1"].result = "invalid_amount"
    /\ Done("p2") /\ proc["p2"].op = "debit"
    /\ proc["p2"].amount > balance[proc["p2"].acct]
    /\ proc["p2"].result = "insufficient_funds"
    /\ balance = bal0 /\ bal0[proc["p2"].acct] > 0

\* C20: PaymentTransaction.mark_completed on a transaction already
\* COMPLETED changes nothing (status and completed_at keep their values),
\* so a second call leaves the state of the first; on any other status it
\* sets the status to COMPLETED and stamps completed_at.
C20_MarkCompletedIdempotent ==
    [][(nmarks' # nmarks /\ mlast'.op = "mark_completed") =>
          IF minst.status = STATUS_COMPLETED
          THEN mrow' = mrow /\ minst' = minst
          ELSE /\ mrow'.status = STATUS_COMPLETED
               /\ minst'.status = STATUS_COMPLETED
               /\ mrow'.completed_at = [kind |-> "time", at |-> nmarks + 1]
               /\ mrow'.failure_reasons = mrow.failure_reasons
      ]_vars

C20_Witness ==
    /\ mlast.op = "mark_completed"
    /\ nmarks = 3
    /\ mrow.status = STATUS_COMPLETED
    /\ mrow.completed_at = [kind |-> "time", at |-> 2]
    /\ Len(mrow.failure_reasons) = 1

\* C21: PaymentTransaction.mark_failed(reason) sets the status to FAILED
\* whatever the status was; a non-empty reason makes failure_reasons the
\* previous list with the reason appended at the end, an empty reason
\* leaves the list as it was; completed_at is not touched; and after any
\* sequence of calls the stored list is the reasons given, in call order.
C21_MarkFailedAppends ==
    [][(nmarks' # nmarks /\ mlast'.op = "mark_failed") =>
          /\ mrow'.status = STATUS_FAILED
          /\ minst'.status = STATUS_FAILED
          /\ mrow'.completed_at = mrow.completed_at
          /\ minst'.failure_reasons =
                IF mlast'.reason # ""
                THEN minst.failure_reasons \o <<mlast'.reason>>
                ELSE minst.failure_reasons
          /\ mrow'.failure_reasons = minst'.failure_reasons
          /\ mrow'.failure_reasons = mgiven'
      ]_vars

C21_Witness ==
    /\ mlast = [op |-> "mark_failed", reason |-> ""]
    /\ nmarks = 4
    /\ mrow.status = STATUS_FAILED
    /\ mrow.completed_at = [kind |-> "time", at |-> 1]
    /\ mrow.failure_reasons = <<"timeout", "declined">>

\* C22: Config.validate_required raises exactly when SECRET_KEY is empty or
\* no payment provider is configured (no STRIPE_API_KEY, and not both
\* PAYPAL_CLIENT_ID and PAYPAL_CLIENT_SECRET); the error lists SECRET_KEY
\* when the key is empty and the payment provider when none is configured,
\* both when both are missing, and nothing else; a PayPal client id without
\* its secret is no provider.
C22_ValidateRequired ==
    vres # <<>> =>
        LET v == vres[1]
            c == v.cfg
            noKey == c.SECRET_KEY = ""
            provider == \/ c.STRIPE_API_KEY \notin {None, ""}
                        \/ /\ c.PAYPAL_CLIENT_ID \notin {None, ""}
                           /\ c.PAYPAL_CLIENT_SECRET \notin {None, ""}
            listed == {v.missing[i] : i \in DOMAIN v.missing}
        IN /\ v.raised <=> (noKey \/ ~provider)
           /\ (MissingSecretKey \in listed) <=> noKey
           /\ (MissingProvider \in listed) <=> ~provider
           /\ listed \subseteq {MissingSecretKey, MissingProvider}
           /\ Len(v.missing) = Cardinality(listed)

C22_Witness ==
    /\ vres # <<>>
    /\ vres[1].raised
    /\ vres[1].missing = <<MissingProvider>>
    /\ vres[1].cfg.SECRET_KEY = "x"
    /\ vres[1].cfg.STRIPE_API_KEY = None
    /\ vres[1].cfg.PAYPAL_CLIENT_ID = "x"
    /\ vres[1].cfg.PAYPAL_CLIENT_SECRET = ""

\* C23: get_config is cached: once a call has returned, every call made
\* afterwards returns the snapshot that first call returned, whatever
\* os.environ holds by then.
C23_GetConfigCached ==
    \A i \in DOMAIN clog : clog[i].after => clog[i].ret = clog[1].ret

C23_Witness ==
    \E i \in DOMAIN clog :
        /\ clog[i].after
        /\ clog[i].ret = clog[1].ret
        /\ clog[i].stale
        /\ nenv > 0

\* C24: every session acquired through get_db is eventually closed, and
\* closed exactly once, whether the handler returned or raised (a 404, a
\* 400 or any other exception): close() is never called twice on a
\* session, and a request that has ended has left its session closed.
C24_SessionClosedOnce ==
    /\ [](\A s \in DOMAIN sess : sess[s].closes <= 1)
    /\ [](\A q \in Slots :
             rq[q].pc = "ended" =>
                 sess[rq[q].session] = [open |-> FALSE, closes |-> 1])
    /\ \A s \in 1..MaxSessions :
          (s \in DOMAIN sess)
              ~> (s \in DOMAIN sess /\ ~sess[s].open /\ sess[s].closes = 1)

C24_Witness ==
    /\ Len(sess) = 2
    /\ rq["q1"].pc = "ended" /\ rq["q1"].exit = "404"
    /\ rq["q2"].pc = "ended" /\ rq["q2"].exit = "400"
    /\ \A s \in DOMAIN sess : sess[s] = [open |-> FALSE, closes |-> 1]

\* C25: an update_payment request rejected for an invalid status
\* transition persists nothing: no stored record changes, neither the
\* status nor the description of the addressed record, even when the
\* request carried a new description.
C25_RejectedUpdatePersistsNothing ==
    [][(nreq' # nreq /\ creq'.op = "update" /\ cresp'.code = 400) =>
          /\ DOMAIN payments' = DOMAIN payments
          /\ \A id \in DOMAIN payments :
                /\ payments'[id].status = payments[id].status
                /\ payments'[id].description = payments[id].description
      ]_vars

C25_Witness ==
    /\ creq.op = "update" /\ cresp.code = 400
    /\ creq.description = "d1"
    /\ payments[creq.id].description = None
    /\ payments[creq.id].status = FAILED

\* C26: over any sequence of create, read, list and update requests, a
\* record whose stored status is failed or refunded keeps that status in
\* every later state, and a record whose stored status is completed is
\* next completed or refunded, so that it is never pending or failed again.
C26_TerminalStatuses ==
    [][\A id \in DOMAIN payments \cap DOMAIN payments' :
          /\ payments[id].status \in {FAILED, REFUNDED}
                => payments'[id].status = payments[id].status
          /\ payments[id].status = COMPLETED
                => payments'[id].status \in {COMPLETED, REFUNDED}
      ]_vars

C26_Witness ==
    /\ creq.op = "update" /\ cresp.code = 400
    /\ creq.id \in DOMAIN payments
    /\ payments[creq.id].status = COMPLETED
    /\ Lower(creq.status) = PENDING

\* C27: a stored record's amount in cents, currency, method and created_at
\* stay what they were at creation for as long as the record exists under
\* its id; an update_payment request changes nothing but the description
\* and the status of the record it addresses, adds and removes no record
\* and leaves every other record alone; get_payment and list_payments
\* change no stored record.
C27_Frame ==
    [][/\ \A id \in DOMAIN payments \cap DOMAIN payments' :
             /\ payments'[id].amount_cents = payments[id].amount_cents
             /\ payments'[id].currency = payments[id].currency
             /\ payments'[id].method = payments[id].method
             /\ payments'[id].created_at = payments[id].created_at
       /\ (nreq' # nreq /\ creq'.op = "update") =>
             /\ DOMAIN payments' = DOMAIN payments
             /\ \A id \in DOMAIN payments :
                   id # creq'.id => payments'[id] = payments[id]
       /\ (nreq' # nreq /\ creq'.op \in {"get", "list"}) => payments' = payments
      ]_vars

C27_Witness ==
    /\ creq.op = "update" /\ cresp.code = 200
    /\ creq.description = "d1" /\ creq.status = "Refunded"
    /\ Cardinality(DOMAIN payments) = 2
    /\ payments[creq.id] = [amount_cents |-> [mag |-> "small", cents |-> 1],
                            currency |-> "USD", method |-> "card",
                            status |-> REFUNDED, description |-> "d1",
                            created_at |-> 0]
    /\ \E id \in DOMAIN payments :
          /\ id # creq.id
          /\ payments[id].status = PENDING /\ payments[id].description = "d1"
          /\ payments[id].currency = "EUR"

\* C28: under any interleaving of concurrent Refund.process calls on
\* refunds of the same transaction, a funds movement commits only while
\* the stored status of the transaction is COMPLETED: no refund moves
\* funds once another call has stored REFUNDED.
C28_MovesOnlyWhileCompleted ==
    [][\A r \in Refunds :
          moved'[r] > moved[r] => txn.status = STATUS_COMPLETED
      ]_vars

\* C29: background webhook processing never propagates an exception: for
\* every JSON value the endpoints accept, an object or not, with a data
\* field that is an object or not, the task of an accepted request ends
\* by logging, any failure caught inside it.
C29_BackgroundNeverRaises ==
    \A i \in 1..Len(hooklog) : hooklog[i].task # "raised"

C31_ProcessedRefundMovesNothing ==
    [][\A p \in Procs :
          (/\ proc[p].op = "process" /\ proc[p].pc = "commit"
           /\ proc[p].self_processed_at
           /\ proc[p].tx_status = STATUS_COMPLETED
           /\ proc'[p].pc = "done")
              => balance' = balance]_vars


\* C32: under any interleaving of update_payment requests on the same
\* record, every change of the record's committed status follows the
\* transition table, so a committed status of failed or refunded is never
\* followed by a different committed status.
C32_CommittedStatusFollowsTable ==
    [][\A id \in DOMAIN payments \cap DOMAIN payments' :
          payments'[id].status # payments[id].status
              => payments'[id].status \in AllowedTransitions(payments[id].status)]_vars

====
